---- MODULE Spec2Model ----
(***************************************************************************)
(* State-machine model of the conversational gateway:                      *)
(*   app/core/state.py    SessionState, SessionStateManager                *)
(*   app/core/routing.py  analyze_conversation_context, get_system_prompt  *)
(*   app/llm/tools.py     execute_tool and the two executors               *)
(*   app/llm/client.py    LLMClient.stream_response (async generator)      *)
(*   app/api/websocket.py WebSocketSessionManager, websocket_endpoint      *)
(*                                                                         *)
(* Scheduling is asyncio's: a task runs until it suspends.  The methods of *)
(* db_client and the tool executors are coroutines without an await of     *)
(* their own, so they never suspend; the suspension points are accept,     *)
(* receive_text, send_json, the upstream request and the upstream stream.  *)
(* One action of the model is one run of a task from one upstream or       *)
(* client input to the next; send_json is taken together with the code     *)
(* that follows it.  Timestamps are left out: no modelled decision reads   *)
(* them.  Text is a sequence of one-character strings.                     *)
(***************************************************************************)
EXTENDS Integers, Sequences, FiniteSets, TLC

(***************************************************************************)
(* Bounds of the model                                                     *)
(***************************************************************************)
MaxTurns == 2        \* inbound frames handled in one behaviour
MaxChunks == 2       \* chunks delivered by one upstream stream
MaxFill == 11        \* user messages already in a drawn transcript
MaxToolCount == 3    \* tool outputs already recorded in a drawn transcript

None == "None"

Conn == {"c1", "c2"}
SessionIds == {"s1", "s2"}
UserIds == {"None", "u1"}

(***************************************************************************)
(* Text                                                                    *)
(***************************************************************************)
UpperCase == <<"A","B","C","D","E","F","G","H","I","J","K","L","M",
               "N","O","P","Q","R","S","T","U","V","W","X","Y","Z">>
LowerCase == <<"a","b","c","d","e","f","g","h","i","j","k","l","m",
               "n","o","p","q","r","s","t","u","v","w","x","y","z">>

\* str.lower() on one character
LowerChar(ch) ==
    IF \E i \in 1..26 : UpperCase[i] = ch
    THEN LowerCase[CHOOSE i \in 1..26 : UpperCase[i] = ch]
    ELSE ch

\* str.lower()
Lower(s) == [i \in 1..Len(s) |-> LowerChar(s[i])]

\* needle in hay
Contains(hay, needle) ==
    \E i \in 1..(Len(hay) - Len(needle) + 1) :
        SubSeq(hay, i, i + Len(needle) - 1) = needle

(***************************************************************************)
(* Session state (app/core/state.py)                                       *)
(***************************************************************************)
\* Message(role, content); tool_calls and tool_call_id keep their default
\* (None) on every Message the driver builds, so they are left out.
Message(role, content) == [role |-> role, content |-> content]

\* SessionState(session_id, user_id, start_time) with the dataclass defaults
NewSessionState(session_id, user_id) ==
    [session_id |-> session_id, user_id |-> user_id,
     messages |-> <<>>, tool_outputs |-> <<>>, routing_decisions |-> <<>>,
     message_count |-> 0, tool_call_count |-> 0]

\* the object slot of a connection that has not created its session yet
NoSessionState == NewSessionState(None, None)

\* add_message counting every message, whatever its role
add_message_any_role(state, message) ==
    [state EXCEPT !.messages = Append(@, message), !.message_count = @ + 1]

add_message(state, message) ==
    [state EXCEPT !.messages = Append(@, message),
                  !.message_count = IF message.role = "user" THEN @ + 1 ELSE @]

\* add_tool_output counting the results without an error only
add_tool_output_successes(state, tool_name, result) ==
    [state EXCEPT !.tool_outputs = Append(@, [tool |-> tool_name, result |-> result]),
                  !.tool_call_count = IF result.error = "" THEN @ + 1 ELSE @]

add_tool_output(state, tool_name, result) ==
    [state EXCEPT !.tool_outputs = Append(@, [tool |-> tool_name, result |-> result]),
                  !.tool_call_count = @ + 1]

add_routing_decision(state, decision) ==
    [state EXCEPT !.routing_decisions = Append(@, decision)]

\* [msg.to_dict() for msg in self.messages]
get_conversation_history(state) == state.messages

(***************************************************************************)
(* Context classifier (app/core/routing.py)                                *)
(***************************************************************************)
FAST_CONCISE == "fast_concise"
ANALYTICAL == "analytical"
SUMMARIZATION_AWARE == "summarization_aware"
TOOL_HEAVY == "tool_heavy"

DepthThreshold == 10
ToolThreshold == 2

analytical_keywords ==
    << <<"a","n","a","l","y","z","e">>, <<"e","x","p","l","a","i","n">>,
       <<"w","h","y">>, <<"h","o","w">>,
       <<"c","o","m","p","a","r","e">>, <<"e","v","a","l","u","a","t","e">> >>

\* for msg in reversed(messages): if msg.role == "user": ... break
\* 0 when there is no user message
LastUserIndex(messages) ==
    IF \E i \in 1..Len(messages) : messages[i].role = "user"
    THEN CHOOSE i \in 1..Len(messages) :
            /\ messages[i].role = "user"
            /\ \A j \in (i+1)..Len(messages) : messages[j].role # "user"
    ELSE 0

IsAnalytical(content) ==
    \E k \in 1..Len(analytical_keywords) :
        Contains(Lower(content), analytical_keywords[k])

\* the rules with the tool-usage check moved before the keyword check
analyze_tools_before_keywords(state) ==
    LET last == LastUserIndex(state.messages)
        analytic == last # 0 /\ IsAnalytical(state.messages[last].content)
        s1 == IF state.message_count > DepthThreshold
              THEN SUMMARIZATION_AWARE ELSE FAST_CONCISE
        s2 == IF state.tool_call_count > ToolThreshold THEN TOOL_HEAVY ELSE s1
        strategy == IF analytic THEN ANALYTICAL ELSE s2
    IN [strategy |-> strategy,
        verbosity |-> IF strategy = ANALYTICAL THEN "detailed"
                      ELSE IF strategy = SUMMARIZATION_AWARE THEN "balanced"
                      ELSE "concise",
        reasoning |-> <<>>,
        message_count |-> state.message_count,
        tool_call_count |-> state.tool_call_count]

\* the rules with the verbosity taken before the tool-usage check
analyze_verbosity_early(state) ==
    LET messages == state.messages
        message_count == state.message_count
        tool_call_count == state.tool_call_count
        deep == message_count > DepthThreshold
        s1 == IF deep THEN SUMMARIZATION_AWARE ELSE FAST_CONCISE
        r1 == IF deep THEN <<"deep">> ELSE <<>>
        last == LastUserIndex(messages)
        analytic == last # 0 /\ IsAnalytical(messages[last].content)
        s2 == IF analytic THEN ANALYTICAL ELSE s1
        r2 == IF analytic THEN Append(r1, "analytical") ELSE r1
        verbosity == IF s2 = ANALYTICAL THEN "detailed"
                     ELSE IF s2 = SUMMARIZATION_AWARE THEN "balanced"
                     ELSE "concise"
        heavy == tool_call_count > ToolThreshold
        strategy == IF heavy THEN TOOL_HEAVY ELSE s2
        reasoning == IF heavy THEN Append(r2, "tools") ELSE r2
    IN [strategy |-> strategy, verbosity |-> verbosity, reasoning |-> reasoning,
        message_count |-> message_count, tool_call_count |-> tool_call_count]

\* the rules counting the recorded tool outputs instead of tool_call_count
analyze_counting_tool_outputs(state) ==
    LET messages == state.messages
        message_count == state.message_count
        tool_call_count == state.tool_call_count
        deep == message_count > DepthThreshold
        s1 == IF deep THEN SUMMARIZATION_AWARE ELSE FAST_CONCISE
        r1 == IF deep THEN <<"deep">> ELSE <<>>
        last == LastUserIndex(messages)
        analytic == last # 0 /\ IsAnalytical(messages[last].content)
        s2 == IF analytic THEN ANALYTICAL ELSE s1
        r2 == IF analytic THEN Append(r1, "analytical") ELSE r1
        heavy == Len(state.tool_outputs) > ToolThreshold
        strategy == IF heavy THEN TOOL_HEAVY ELSE s2
        reasoning == IF heavy THEN Append(r2, "tools") ELSE r2
        verbosity == IF strategy = ANALYTICAL THEN "detailed"
                     ELSE IF strategy = SUMMARIZATION_AWARE THEN "balanced"
                     ELSE "concise"
    IN [strategy |-> strategy, verbosity |-> verbosity, reasoning |-> reasoning,
        message_count |-> message_count, tool_call_count |-> tool_call_count]

analyze_conversation_context(state) ==
    LET messages == state.messages
        message_count == state.message_count
        tool_call_count == state.tool_call_count
        deep == message_count > DepthThreshold
        s1 == IF deep THEN SUMMARIZATION_AWARE ELSE FAST_CONCISE
        r1 == IF deep THEN <<"deep">> ELSE <<>>
        last == LastUserIndex(messages)
        analytic == last # 0 /\ IsAnalytical(messages[last].content)
        s2 == IF analytic THEN ANALYTICAL ELSE s1
        r2 == IF analytic THEN Append(r1, "analytical") ELSE r1
        heavy == tool_call_count > ToolThreshold
        strategy == IF heavy THEN TOOL_HEAVY ELSE s2
        reasoning == IF heavy THEN Append(r2, "tools") ELSE r2
        verbosity == IF strategy = ANALYTICAL THEN "detailed"
                     ELSE IF strategy = SUMMARIZATION_AWARE THEN "balanced"
                     ELSE "concise"
    IN [strategy |-> strategy, verbosity |-> verbosity, reasoning |-> reasoning,
        message_count |-> message_count, tool_call_count |-> tool_call_count]

\* one fixed template per strategy; the template is named by its mode line
get_system_prompt(routing_decision) ==
    LET strategy == routing_decision.strategy
    IN IF strategy = FAST_CONCISE THEN "base+fast_concise"
       ELSE IF strategy = ANALYTICAL THEN "base+analytical"
       ELSE IF strategy = SUMMARIZATION_AWARE THEN "base+summarization_aware"
       ELSE IF strategy = TOOL_HEAVY THEN "base+tool_heavy"
       ELSE "base"

(***************************************************************************)
(* Capability registry (app/llm/tools.py)                                  *)
(***************************************************************************)
TOOL_EXECUTORS == {"fetch_internal_knowledge", "lookup_contextual_data"}

knowledge_base == {"python", "async", "websocket", "llm"}

\* The accumulated arguments text of a tool call is the sequence of the
\* fragments received.  json.loads on it: the texts below are the JSON
\* documents the modelled fragments can spell; any other text raises
\* JSONDecodeError (ok = FALSE).
NoArguments == [kind |-> "dict", keys |-> {}, topic |-> None]

JsonLoads(text) ==
    IF text = <<"{topic:", "python}">>
    THEN [ok |-> TRUE, value |-> [kind |-> "dict", keys |-> {"topic"}, topic |-> "python"]]
    ELSE IF text = <<"{topic:", "rust}">>
    THEN [ok |-> TRUE, value |-> [kind |-> "dict", keys |-> {"topic"}, topic |-> "rust"]]
    ELSE IF text = <<"{session_id:s}">>
    THEN [ok |-> TRUE, value |-> [kind |-> "dict", keys |-> {"session_id"}, topic |-> None]]
    ELSE IF text = <<"{}">>
    THEN [ok |-> TRUE, value |-> NoArguments]
    ELSE IF text = <<"5">> \/ text = <<"5", "5">>
    THEN [ok |-> TRUE, value |-> [kind |-> "int", keys |-> {}, topic |-> None]]
    ELSE [ok |-> FALSE, value |-> NoArguments]

\* try: json.loads(...) except json.JSONDecodeError: arguments = {}
ParseArguments(text) ==
    IF JsonLoads(text).ok THEN JsonLoads(text).value ELSE NoArguments

NoResult == [error |-> "", tool |-> None, payload |-> None, confidence |-> 0]

fetch_internal_knowledge(topic) ==
    [error |-> "", tool |-> "fetch_internal_knowledge", payload |-> topic,
     confidence |-> IF topic \in knowledge_base THEN 85 ELSE 50]

lookup_contextual_data(session_id) ==
    [error |-> "", tool |-> "lookup_contextual_data", payload |-> "context",
     confidence |-> 0]

\* execute_tool looking the name up with a default: no error for a name that
\* is not registered
execute_tool_lenient(tool_name, arguments) ==
    IF tool_name \notin TOOL_EXECUTORS THEN [raised |-> FALSE, result |-> NoResult]
    ELSE IF arguments.kind = "dict" /\ tool_name = "fetch_internal_knowledge"
            /\ arguments.keys = {"topic"}
    THEN [raised |-> FALSE, result |-> fetch_internal_knowledge(arguments.topic)]
    ELSE IF arguments.kind = "dict" /\ tool_name = "lookup_contextual_data"
            /\ arguments.keys = {"session_id"}
    THEN [raised |-> FALSE, result |-> lookup_contextual_data("s")]
    ELSE [raised |-> TRUE, result |-> [NoResult EXCEPT !.error = "bad arguments"]]

\* execute_tool: raised = TRUE when it raises (ValueError for a name that is not
\* registered, TypeError when executor(**arguments) does not bind), and then
\* result is {"error": str(e)} as the caller builds it.
execute_tool(tool_name, arguments) ==
    IF tool_name \notin TOOL_EXECUTORS
    THEN [raised |-> TRUE, result |-> [NoResult EXCEPT !.error = "Unknown tool"]]
    ELSE IF arguments.kind # "dict"
    THEN [raised |-> TRUE, result |-> [NoResult EXCEPT !.error = "not a mapping"]]
    ELSE IF tool_name = "fetch_internal_knowledge"
    THEN IF arguments.keys = {"topic"}
         THEN [raised |-> FALSE, result |-> fetch_internal_knowledge(arguments.topic)]
         ELSE [raised |-> TRUE, result |-> [NoResult EXCEPT !.error = "bad arguments"]]
    ELSE IF arguments.keys = {"session_id"}
         THEN [raised |-> FALSE, result |-> lookup_contextual_data("s")]
         ELSE [raised |-> TRUE, result |-> [NoResult EXCEPT !.error = "bad arguments"]]

(***************************************************************************)
(* Upstream failures and the except clauses of stream_response             *)
(* (app/llm/client.py 213-390).  An exception is                           *)
(*   cls          its class in the SDK                                     *)
(*   status_code  getattr(e, 'status_code', None), 0 for None              *)
(*   body         the error body the handler resolves from e.body or       *)
(*                e.response: shape "absent" ({}), "nested" ({"error":     *)
(*                {code, message}}), "flat" ({"error": <not a dict>, code, *)
(*                message}), "other" (not a dict, or the parse raised)     *)
(*   text         str(e)                                                   *)
(* A message value is [kind, text]: kind "absent" (no such key), "null"    *)
(* (JSON null), "nonstr" (a JSON number) or "str".                         *)
(***************************************************************************)
StatusNone == 0
StatusUnauthorized == 401
StatusNotFound == 404
StatusTooManyRequests == 429

\* RateLimitError, APIStatusError, APIConnectionError and APITimeoutError are
\* subclasses of APIError in the SDK the module imports them from
IsRateLimitError(cls) == cls = "RateLimitError"
IsAPIError(cls) ==
    cls \in {"APIError", "APIStatusError", "RateLimitError",
             "APIConnectionError", "APITimeoutError"}
IsAPIConnectionError(cls) == cls \in {"APIConnectionError", "APITimeoutError"}
IsAPITimeoutError(cls) == cls = "APITimeoutError"

TextPlain == <<"O","o","p","s">>
TextRateLimit == <<"R","a","t","e","_","L","i","m","i","t"," ","h","i","t">>
TextInvalidKey == <<"I","n","v","a","l","i","d","_","A","P","I","_","K","e","y">>
TextModelNotFound == <<"m","o","d","e","l","_","n","o","t","_","f","o","u","n","d">>

MarkRateLimit == <<"r","a","t","e","_","l","i","m","i","t">>
MarkInvalidKey == <<"i","n","v","a","l","i","d","_","a","p","i","_","k","e","y">>
MarkModelNotFound == <<"m","o","d","e","l","_","n","o","t","_","f","o","u","n","d">>

\* lines 235-280: error_code_str and error_message_detail
\* detail is [kind, text]; kind "str" when it is a string
ErrorDetails(e) ==
    LET body == e.body
        fromE == [kind |-> "str", text |-> e.text]
        keyed == body.shape \in {"nested", "flat"}
    IN [code_str |-> IF keyed THEN body.code ELSE "",
        detail |-> IF keyed /\ body.message.kind # "absent"
                   THEN body.message ELSE fromE]

\* x.lower() raises AttributeError unless x is a string
CanLower(v) == v.kind = "str"
\* truth value of a message value: None and "" are false, 5 is true
Truthy(v) == IF v.kind = "str" THEN Len(v.text) > 0 ELSE v.kind = "nonstr"
InLower(mark, v) == Contains(Lower(v.text), mark)

\* The error event of the except clause that catches e:
\* [raised |-> TRUE] when the clause itself raises, so that the exception
\* leaves the generator and no event is yielded.
APIErrorEvent(e) ==
    LET error_code == e.status_code
        d == ErrorDetails(e)
        code_str == d.code_str
        detail == d.detail
        fromE == [kind |-> "str", text |-> e.text]
        Ev(m) == [raised |-> FALSE, message |-> m]
        Raise == [raised |-> TRUE, message |-> "AttributeError"]
    IN IF error_code = StatusTooManyRequests
       THEN IF code_str = "insufficient_quota" THEN Ev("quota_exceeded")
            ELSE IF code_str = "rate_limit_exceeded" THEN Ev("rate_limit")
            ELSE IF ~Truthy(detail) THEN Ev("too_many_requests_429")
            ELSE IF ~CanLower(detail) THEN Raise
            ELSE IF InLower(MarkRateLimit, detail) THEN Ev("rate_limit")
            ELSE Ev("too_many_requests_429")
       ELSE IF error_code = StatusUnauthorized THEN Ev("quota_exceeded")
       ELSE IF ~CanLower(detail) THEN Raise
       ELSE IF InLower(MarkInvalidKey, detail) THEN Ev("quota_exceeded")
       ELSE IF InLower(MarkInvalidKey, fromE) THEN Ev("invalid_api_key")
       ELSE IF error_code = StatusNotFound \/ InLower(MarkModelNotFound, fromE)
            THEN Ev("model_not_available")
       ELSE Ev("api_error")

\* the except clauses in their order: the first whose class matches handles e
ErrorEvent(e) ==
    IF IsRateLimitError(e.cls) THEN [raised |-> FALSE, message |-> "rate_limit"]
    ELSE IF IsAPIError(e.cls) THEN APIErrorEvent(e)
    ELSE IF IsAPIConnectionError(e.cls) THEN [raised |-> FALSE, message |-> "connection"]
    ELSE IF IsAPITimeoutError(e.cls) THEN [raised |-> FALSE, message |-> "timeout"]
    ELSE [raised |-> FALSE, message |-> "unexpected"]

(***************************************************************************)
(* State                                                                   *)
(***************************************************************************)
VARIABLES
    sessions,            \* state_manager._sessions: session id -> the object
                         \* registered under it, named by the connection whose
                         \* connect created it (None: no entry)
    session_state,       \* the SessionState objects, by creating connection
    active_connections,  \* ws_manager.active_connections: session id -> websocket,
                         \* named by its connection (None: no entry)
    pc,                  \* websocket_endpoint of each connection: "idle" before
                         \* connect, "receive" at receive_text, "turn" inside
                         \* handle_message, "closed" after it returned
    session_id,          \* the path parameter of each connection
    ws_open,             \* the client end of each websocket is still open
    turns,               \* inbound frames each connection has received
    turn,                \* the locals of handle_message, kept after it returns
    gen,                 \* the locals of the stream_response generator
    events,              \* what the generator has yielded in this turn
    frames,              \* what this turn has sent: [ws, frame]
    db_events,           \* the session_events table, per session id
    db_sessions,         \* the session ids with a row in the sessions table
    summary_tasks,       \* generate_session_summary tasks created, in order,
                         \* each with the position and locals of its coroutine
    db_summaries,        \* the final_summary values written to the row of each
                         \* session id in the sessions table, in order
    inputs               \* history variable: what each connection has received
                         \* from its client and from the upstream, when recorded

vars == <<sessions, session_state, active_connections, pc, session_id, ws_open,
          turns, turn, gen, events, frames, db_events, db_sessions, summary_tasks,
          db_summaries, inputs>>

\* the history variable: off, or one entry for every step a connection takes,
\* with the frame, chunk or exception the step was given
NoInputs == [on |-> FALSE, of |-> [c \in Conn |-> <<>>]]
NoFrame == [kind |-> "none", text |-> <<>>, has_message |-> FALSE, message |-> <<>>]
NoChunk == [choices |-> FALSE, content |-> <<>>, tool_calls |-> <<>>,
            finish_reason |-> None]
NoExc ==
    [cls |-> "none", status_code |-> 0,
     body |-> [shape |-> "absent", code |-> "",
               message |-> [kind |-> "absent", text |-> <<>>]],
     text |-> <<>>]

Input(op, frame, chunk, e) == [op |-> op, frame |-> frame, chunk |-> chunk, e |-> e]

Note(c, op, frame, chunk, e) ==
    inputs' = IF inputs.on
              THEN [inputs EXCEPT !.of[c] = Append(@, Input(op, frame, chunk, e))]
              ELSE inputs

(***************************************************************************)
(* Events, frames and log entries                                          *)
(***************************************************************************)
Event(type, content, tool, arguments, result) ==
    [type |-> type, content |-> content, tool |-> tool,
     arguments |-> arguments, result |-> result]

TokenEvent(token) == Event("token", token, None, NoArguments, NoResult)
ToolCallEvent(name, arguments) == Event("tool_call", <<>>, name, arguments, NoResult)
ToolResultEvent(name, result) == Event("tool_result", <<>>, name, NoArguments, result)
DoneEvent == Event("done", <<>>, None, NoArguments, NoResult)
ErrorEventOf(message) == Event("error", <<message>>, None, NoArguments, NoResult)
NoEvent == Event("none", <<>>, None, NoArguments, NoResult)

\* the frames with the done event answered by an empty token frame
FrameOfQuietDone(ev) ==
    IF ev.type = "token" THEN Event("token", ev.content, None, NoArguments, NoResult)
    ELSE IF ev.type = "tool_call"
    THEN Event("tool_call", <<>>, ev.tool, ev.arguments, NoResult)
    ELSE IF ev.type = "tool_result"
    THEN Event("tool_result", <<>>, ev.tool, NoArguments, ev.result)
    ELSE IF ev.type = "done" THEN Event("token", <<>>, None, NoArguments, NoResult)
    ELSE Event("error", ev.content, None, NoArguments, NoResult)

\* the frame handle_message sends for an event (websocket.py 152-221): the
\* keys each branch copies
FrameOf(ev) ==
    IF ev.type = "token" THEN Event("token", ev.content, None, NoArguments, NoResult)
    ELSE IF ev.type = "tool_call"
    THEN Event("tool_call", <<>>, ev.tool, ev.arguments, NoResult)
    ELSE IF ev.type = "tool_result"
    THEN Event("tool_result", <<>>, ev.tool, NoArguments, ev.result)
    ELSE IF ev.type = "done" THEN DoneEvent
    ELSE Event("error", ev.content, None, NoArguments, NoResult)

\* the frame of the except clause of handle_message (websocket.py 223-228)
DriverErrorFrame == ErrorEventOf("Error processing message")

\* a row of session_events: event_type and what the content is built from
LogEntry(event_type, content, tool, arguments, result) ==
    [event_type |-> event_type, content |-> content, tool |-> tool,
     arguments |-> arguments, result |-> result]

SystemEntry(text) == LogEntry("system_event", <<text>>, None, NoArguments, NoResult)
UserEntry(content) == LogEntry("user_message", content, None, NoArguments, NoResult)

\* the row handle_message logs for an event; token, tool_call and tool_result
\* are the events it logs
LogOf(ev) ==
    IF ev.type = "token"
    THEN LogEntry("ai_token", ev.content, None, NoArguments, NoResult)
    ELSE IF ev.type = "tool_call"
    THEN LogEntry("tool_call", <<>>, ev.tool, ev.arguments, NoResult)
    ELSE LogEntry("tool_result", <<>>, ev.tool, NoArguments, ev.result)

IsLogged(ev) == ev.type \in {"token", "tool_call", "tool_result"}

(***************************************************************************)
(* The generator stream_response (app/llm/client.py 58-211)                *)
(***************************************************************************)
\* a message of the upstream request
Msg(role, content, tool_calls, tool_call_id) ==
    [role |-> role, content |-> content, tool_calls |-> tool_calls,
     tool_call_id |-> tool_call_id]

\* Message.to_dict() of a driver-built Message: role and content
ToDict(m) == Msg(m.role, m.content, <<>>, "")

\* a slot of the tool_calls list; present = FALSE is the None of line 92
NoSlot == [present |-> FALSE, id |-> "", name |-> "", arguments |-> <<>>]

NoGen ==
    [pc |-> "idle", full_messages |-> <<>>, tool_calls |-> <<>>,
     accumulated_content |-> <<>>, finish_reason |-> None, idx |-> 0,
     all_tool_calls_formatted |-> <<>>, tool_result_messages |-> <<>>,
     chunks |-> 0, requests |-> <<>>, failed_at |-> ""]

\* a chunk of an upstream stream
Chunk(choices, content, tool_calls, finish_reason) ==
    [choices |-> choices, content |-> content, tool_calls |-> tool_calls,
     finish_reason |-> finish_reason]

\* a tool-call fragment of a chunk: index, id, function (name, arguments);
\* "" stands for None or the empty string, which the code treats alike
Fragment(index, id, has_function, name, arguments) ==
    [index |-> index, id |-> id, has_function |-> has_function,
     name |-> name, arguments |-> arguments]

\* lines 88-109 for one fragment
ApplyFragment(tool_calls, f) ==
    LET pos == f.index + 1
        extended == IF f.index >= Len(tool_calls)
                    THEN tool_calls \o [i \in 1..(pos - Len(tool_calls)) |-> NoSlot]
                    ELSE tool_calls
        slot0 == IF extended[pos].present THEN extended[pos]
                 ELSE [present |-> TRUE, id |-> f.id, name |-> "", arguments |-> <<>>]
        slot1 == IF f.has_function /\ f.name # ""
                 THEN [slot0 EXCEPT !.name = f.name] ELSE slot0
        slot2 == IF f.has_function /\ f.arguments # ""
                 THEN [slot1 EXCEPT !.arguments = Append(@, f.arguments)] ELSE slot1
    IN [extended EXCEPT ![pos] = slot2]

RECURSIVE ApplyFragments(_, _)
ApplyFragments(tool_calls, fs) ==
    IF fs = <<>> THEN tool_calls
    ELSE ApplyFragments(ApplyFragment(tool_calls, Head(fs)), Tail(fs))

\* the chunk loop testing the fragments seen before this chunk only
FirstChunkContentFirst(g, chunk) ==
    IF ~chunk.choices THEN [g |-> [g EXCEPT !.chunks = @ + 1], ev |-> NoEvent]
    ELSE LET tcs == ApplyFragments(g.tool_calls, chunk.tool_calls)
             g1 == [g EXCEPT !.chunks = @ + 1,
                             !.finish_reason = chunk.finish_reason,
                             !.tool_calls = tcs]
         IN IF chunk.content # <<>> /\ g.tool_calls = <<>>
            THEN [g |-> [g1 EXCEPT !.accumulated_content = @ \o chunk.content],
                  ev |-> TokenEvent(chunk.content)]
            ELSE [g |-> g1, ev |-> NoEvent]

\* lines 79-118 for one chunk of the first stream: the new locals and the
\* event yielded (NoEvent when none)
FirstChunk(g, chunk) ==
    IF ~chunk.choices THEN [g |-> [g EXCEPT !.chunks = @ + 1], ev |-> NoEvent]
    ELSE LET tcs == ApplyFragments(g.tool_calls, chunk.tool_calls)
             g1 == [g EXCEPT !.chunks = @ + 1,
                             !.finish_reason = chunk.finish_reason,
                             !.tool_calls = tcs]
         IN IF chunk.content # <<>> /\ tcs = <<>>
            THEN [g |-> [g1 EXCEPT !.accumulated_content = @ \o chunk.content],
                  ev |-> TokenEvent(chunk.content)]
            ELSE [g |-> g1, ev |-> NoEvent]

\* lines 202-209 for one chunk of the second stream
SecondChunk(g, chunk) ==
    IF chunk.choices /\ chunk.content # <<>>
    THEN [g |-> [g EXCEPT !.chunks = @ + 1,
                          !.accumulated_content = @ \o chunk.content],
          ev |-> TokenEvent(chunk.content)]
    ELSE [g |-> [g EXCEPT !.chunks = @ + 1], ev |-> NoEvent]

\* the loop body running for every entry that is not None
IsCallableUnnamed(slot) == slot.present

\* line 129: the entries of tool_calls the loop body runs for
IsCallable(slot) == slot.present /\ slot.name # ""

\* the first index >= i the loop body runs for, Len + 1 when there is none
NextCallable(tool_calls, i) ==
    IF \E j \in i..Len(tool_calls) : IsCallable(tool_calls[j])
    THEN CHOOSE j \in i..Len(tool_calls) :
            /\ IsCallable(tool_calls[j])
            /\ \A k \in i..(j-1) : ~IsCallable(tool_calls[k])
    ELSE Len(tool_calls) + 1

\* line 121
WantsTools(g) == g.tool_calls # <<>> /\ g.finish_reason = "tool_calls"

\* lines 130-141: the tool_call event of entry i
CallEvent(g, i) ==
    ToolCallEvent(g.tool_calls[i].name, ParseArguments(g.tool_calls[i].arguments))

\* the except clause of the tool call logging the failure without a tool_result
ExecuteEntryQuietFailure(g) ==
    LET tool_call == g.tool_calls[g.idx]
        r == execute_tool(tool_call.name, ParseArguments(tool_call.arguments))
    IN IF r.raised THEN [g |-> [g EXCEPT !.pc = "next"], ev |-> NoEvent]
       ELSE [g |-> [g EXCEPT !.pc = "next",
                             !.all_tool_calls_formatted =
                                 Append(@, [id |-> tool_call.id, name |-> tool_call.name,
                                            arguments |-> tool_call.arguments]),
                             !.tool_result_messages =
                                 Append(@, Msg("tool", <<"json", r.result.tool,
                                                         r.result.payload>>,
                                               <<>>, tool_call.id))],
             ev |-> ToolResultEvent(tool_call.name, r.result)]

\* lines 143-180: executing entry g.idx; the new locals and the tool_result
\* event.  Only a call that did not raise is stored for the second request.
ExecuteEntry(g) ==
    LET tool_call == g.tool_calls[g.idx]
        tool_name == tool_call.name
        r == execute_tool(tool_name, ParseArguments(tool_call.arguments))
        formatted == [id |-> tool_call.id, name |-> tool_name,
                      arguments |-> tool_call.arguments]
        message == Msg("tool", <<"json", r.result.tool, r.result.payload>>,
                       <<>>, tool_call.id)
    IN [g |-> IF r.raised THEN [g EXCEPT !.pc = "next"]
              ELSE [g EXCEPT !.pc = "next",
                             !.all_tool_calls_formatted = Append(@, formatted),
                             !.tool_result_messages = Append(@, message)],
        ev |-> ToolResultEvent(tool_name, r.result)]

\* the second request offering the tools again
SecondRequestWithTools(g) ==
    LET assistant_message == Msg("assistant", g.accumulated_content,
                                 g.all_tool_calls_formatted, "")
        full == Append(g.full_messages, assistant_message) \o g.tool_result_messages
    IN [g EXCEPT !.pc = "req2", !.full_messages = full,
                 !.accumulated_content = <<>>, !.chunks = 0,
                 !.requests = Append(@, [tools |-> TRUE, messages |-> full])]

\* lines 183-200: the history and the request of the second round
SecondRequestOf(g) ==
    LET assistant_message == Msg("assistant", g.accumulated_content,
                                 g.all_tool_calls_formatted, "")
        full == Append(g.full_messages, assistant_message) \o g.tool_result_messages
    IN [g EXCEPT !.pc = "req2", !.full_messages = full,
                 !.accumulated_content = <<>>, !.chunks = 0,
                 !.requests = Append(@, [tools |-> FALSE, messages |-> full])]

\* the generator after the tool_result of entry g.idx was consumed, and after
\* the first stream ended with i = 1: the next tool_call, the second request,
\* or done
Continue(g, i) ==
    LET j == NextCallable(g.tool_calls, i)
    IN IF j <= Len(g.tool_calls)
       THEN [g |-> [g EXCEPT !.pc = "exec", !.idx = j], ev |-> CallEvent(g, j)]
       ELSE IF g.all_tool_calls_formatted # <<>>
       THEN [g |-> SecondRequestOf(g), ev |-> NoEvent]
       ELSE [g |-> [g EXCEPT !.pc = "done"], ev |-> DoneEvent]

\* lines 120-211 when the first stream ends
FirstEnd(g) ==
    IF WantsTools(g) THEN Continue(g, 1)
    ELSE [g |-> [g EXCEPT !.pc = "done"], ev |-> DoneEvent]

\* the except clauses (213-390) for an exception e raised by the upstream call
\* or stream: the error event, or no event when the clause itself raises
Catch(g, e) ==
    LET r == ErrorEvent(e)
    IN IF r.raised
       THEN [g |-> [g EXCEPT !.pc = "raised", !.failed_at = g.pc], ev |-> NoEvent]
       ELSE [g |-> [g EXCEPT !.pc = "error", !.failed_at = g.pc],
             ev |-> ErrorEventOf(r.message)]

(***************************************************************************)
(* The protocol driver (app/api/websocket.py)                              *)
(***************************************************************************)
\* websocket, state and accumulated_response are the locals of handle_message.
\* outcome records how the call went: "running", "done" or "error" (the frame
\* of that event was the last one sent), "driver_error" (the except clause
\* sent its frame), "aborted" (a send raised), "returned" (an early return),
\* "bad_frame" (the parse raised).  prev is the outcome of the call before,
\* log_mark the length of the session's log when the stream was opened.
NoTurn == [websocket |-> None, state |-> None, accumulated_response |-> <<>>,
           outcome |-> "none", prev |-> "none", log_mark |-> 0]

\* db is the outcome of the persistence calls of one action, in call order:
\* db[k] = FALSE when the k-th call fails (it logs and returns False)
DbCalls == 1..2

Logged(dbev, sid, ok, entry) ==
    IF ok THEN [dbev EXCEPT ![sid] = Append(@, entry)] ELSE dbev

\* get_session taking the entry out of the registry, as remove_session does
get_session_pop(registry, sid) ==
    [state |-> registry[sid], registry |-> [registry EXCEPT ![sid] = None]]

\* SessionStateManager.get_session (state.py 140-142): what it returns and the
\* registry it leaves
get_session(registry, sid) == [state |-> registry[sid], registry |-> registry]

\* remove_session emptying the registry
remove_session_all(registry, sid) == [s \in SessionIds |-> None]

\* SessionStateManager.remove_session (state.py 144-146): the registry it leaves
remove_session(registry, sid) == [registry EXCEPT ![sid] = None]

\* the coroutine asyncio.create_task is given (websocket.py 91), not yet started:
\* seen are the events it has loaded, requests its upstream requests, updates
\* its update_session_summary calls, raised whether an exception left it,
\* conversation_text the transcript it built, summary the text
\* _generate_summary_with_llm returned, caught the exception its except
\* clause logged, stored what update_session_summary returned
Task(sid) ==
    [session_id |-> sid, pc |-> "scheduled", seen |-> <<>>, requests |-> 0,
     updates |-> 0, raised |-> FALSE, conversation_text |-> <<>>,
     summary |-> "", caught |-> "", stored |-> "none"]

\* disconnect awaiting the summarizer instead of creating a task for it
disconnect_and_wait(c, dbev, ok) ==
    LET sid == session_id[c]
    IN /\ active_connections' = [active_connections EXCEPT ![sid] = None]
       /\ db_events' = Logged(dbev, sid, ok, SystemEntry("Session ended"))
       /\ sessions' = remove_session(get_session(sessions, sid).registry, sid)
       /\ summary_tasks' = Append(summary_tasks, [Task(sid) EXCEPT !.pc = "finished"])
       /\ pc' = [pc EXCEPT ![c] = "closed"]
       /\ UNCHANGED db_summaries

\* disconnect scheduling the summarizer for a session it found registered only
disconnect_registered_only(c, dbev, ok) ==
    LET sid == session_id[c]
    IN /\ active_connections' = [active_connections EXCEPT ![sid] = None]
       /\ db_events' = Logged(dbev, sid, ok, SystemEntry("Session ended"))
       /\ sessions' = remove_session(get_session(sessions, sid).registry, sid)
       /\ summary_tasks' = IF get_session(sessions, sid).state = None THEN summary_tasks
                           ELSE Append(summary_tasks, Task(sid))
       /\ pc' = [pc EXCEPT ![c] = "closed"]
       /\ UNCHANGED db_summaries

\* disconnect scheduling the summarizer with "Session ended" not yet logged
disconnect_unlogged(c, dbev, ok) ==
    LET sid == session_id[c]
    IN /\ active_connections' = [active_connections EXCEPT ![sid] = None]
       /\ db_events' = dbev
       /\ sessions' = remove_session(get_session(sessions, sid).registry, sid)
       /\ summary_tasks' = Append(summary_tasks, Task(sid))
       /\ pc' = [pc EXCEPT ![c] = "closed"]
       /\ UNCHANGED db_summaries

\* WebSocketSessionManager.disconnect (68-94), run by connection c; dbev is the
\* table as the running action has left it
disconnect(c, dbev, ok) ==
    LET sid == session_id[c]
    IN /\ active_connections' = [active_connections EXCEPT ![sid] = None]
       /\ db_events' = Logged(dbev, sid, ok, SystemEntry("Session ended"))
       /\ sessions' = remove_session(get_session(sessions, sid).registry, sid)
       /\ summary_tasks' = Append(summary_tasks, Task(sid))
       /\ pc' = [pc EXCEPT ![c] = "closed"]
       /\ UNCHANGED db_summaries

\* the loop body re-raising the orchestrator's error event
BodyRaisesOnError(ev, sent) == ~sent \/ ev.type = "error"

\* the body of the async for raises for event ev (150-221): only its send can,
\* when the client end is closed
BodyRaises(ev, sent) == ~sent

\* the session recording a tool-role message for every tool result
StateAfterRecordingTools(state, ev, accumulated_response) ==
    IF ev.type = "tool_result"
    THEN add_message(add_tool_output(state, ev.tool, ev.result), Message("tool", <<>>))
    ELSE IF ev.type = "done" /\ accumulated_response # <<>>
    THEN add_message(state, Message("assistant", accumulated_response))
    ELSE state

\* the session keeping the accumulated text of a turn that ends in error too
StateAfterKeepingText(state, ev, accumulated_response) ==
    IF ev.type = "tool_result" THEN add_tool_output(state, ev.tool, ev.result)
    ELSE IF ev.type \in {"done", "error"} /\ accumulated_response # <<>>
    THEN add_message(state, Message("assistant", accumulated_response))
    ELSE state

\* what the body of the async for does to the Session for one event: the
\* tool output of a tool_result (188-192), the assistant message of done
\* (207-211), nothing otherwise
StateAfter(state, ev, accumulated_response) ==
    IF ev.type = "tool_result" THEN add_tool_output(state, ev.tool, ev.result)
    ELSE IF ev.type = "done" /\ accumulated_response # <<>>
    THEN add_message(state, Message("assistant", accumulated_response))
    ELSE state

\* the accumulation that keeps the latest token only
AccumulateLatest(accumulated_response, ev) ==
    IF ev.type = "token" THEN ev.content ELSE accumulated_response

\* accumulated_response += token (155), for a token event only
Accumulate(accumulated_response, ev) ==
    IF ev.type = "token" THEN accumulated_response \o ev.content
    ELSE accumulated_response

\* What one run of the generator, r = [g, ev], does to the turn of c: the
\* body of the async for (150-221) for the event yielded, the except clause
\* (223-228) when the generator raised, and the return to the receive loop or
\* the disconnect handler of websocket_endpoint (269-273).
Drive(c, r, db) ==
    LET t == turn[c]
        w == t.websocket
        o == t.state
        sid == session_id[c]
        ev == r.ev
        raised == r.g.pc = "raised"
        st == session_state[o]
        st2 == StateAfter(st, ev, t.accumulated_response)
        acc == Accumulate(t.accumulated_response, ev)
        sent == ws_open[w]
        \* the token is logged after its frame, a tool event before its frame
        logs == IsLogged(ev) /\ (ev.type = "token" => sent)
        dbev == IF logs THEN Logged(db_events, sid, db[1], LogOf(ev)) ELSE db_events
        terminal == raised \/ ev.type \in {"done", "error"}
        frame == IF raised THEN DriverErrorFrame ELSE FrameOf(ev)
        outcome == IF raised THEN "driver_error"
                   ELSE IF terminal THEN ev.type ELSE "running"
    IN IF ev.type = "none" /\ ~raised
       THEN /\ gen' = [gen EXCEPT ![c] = r.g]
            /\ UNCHANGED <<sessions, session_state, active_connections, pc,
                           session_id, ws_open, turns, turn, events, frames,
                           db_events, db_sessions, summary_tasks, db_summaries>>
       ELSE /\ events' = [events EXCEPT ![c] = IF raised THEN @ ELSE Append(@, ev)]
            /\ session_state' = [session_state EXCEPT ![o] = st2]
            /\ UNCHANGED <<session_id, ws_open, turns, db_sessions>>
            /\ IF ~BodyRaises(ev, sent)
               THEN /\ frames' = [frames EXCEPT ![c] = Append(@, [ws |-> w, frame |-> frame])]
                    /\ turn' = [turn EXCEPT ![c] = [t EXCEPT !.accumulated_response = acc,
                                                             !.outcome = outcome]]
                    /\ gen' = [gen EXCEPT ![c] = r.g]
                    /\ pc' = [pc EXCEPT ![c] = IF terminal THEN "receive" ELSE "turn"]
                    /\ db_events' = dbev
                    /\ UNCHANGED <<sessions, active_connections, summary_tasks,
                                   db_summaries>>
               ELSE \* send_json raised; so does the send of the except clause
                    /\ frames' = frames
                    /\ turn' = [turn EXCEPT ![c] = [t EXCEPT !.accumulated_response = acc,
                                                             !.outcome = "aborted"]]
                    /\ gen' = [gen EXCEPT ![c] =
                                 IF r.g.pc \in {"done", "error", "raised"} THEN r.g
                                 ELSE [r.g EXCEPT !.pc = "abandoned"]]
                    /\ disconnect(c, dbev, db[2])

TurnAt(c, where) == pc[c] = "turn" /\ gen[c].pc \in where

\* connect refusing the session when its row cannot be created
ConnectNeedsRow(c, sid, uid, db) ==
    /\ pc[c] = "idle"
    /\ Note(c, "connect", NoFrame, NoChunk, NoExc)
    /\ session_id' = [session_id EXCEPT ![c] = sid]
    /\ active_connections' = [active_connections EXCEPT ![sid] = c]
    /\ sessions' = IF db[1] THEN [sessions EXCEPT ![sid] = c] ELSE sessions
    /\ session_state' = [session_state EXCEPT ![c] =
                            NewSessionState(sid, IF uid = None THEN sid ELSE uid)]
    /\ db_sessions' = IF db[1] THEN db_sessions \cup {sid} ELSE db_sessions
    /\ db_events' = Logged(db_events, sid, db[2], SystemEntry("Session started"))
    /\ pc' = [pc EXCEPT ![c] = "receive"]
    /\ UNCHANGED <<ws_open, turns, turn, gen, events, frames, summary_tasks,
                   db_summaries>>

\* WebSocketSessionManager.connect (37-66) as websocket_endpoint calls it
Connect(c, sid, uid, db) ==
    /\ pc[c] = "idle"
    /\ Note(c, "connect", NoFrame, NoChunk, NoExc)
    /\ session_id' = [session_id EXCEPT ![c] = sid]
    /\ active_connections' = [active_connections EXCEPT ![sid] = c]
    /\ sessions' = [sessions EXCEPT ![sid] = c]
    /\ session_state' = [session_state EXCEPT ![c] =
                            NewSessionState(sid, IF uid = None THEN sid ELSE uid)]
    /\ db_sessions' = IF db[1] THEN db_sessions \cup {sid} ELSE db_sessions
    /\ db_events' = Logged(db_events, sid, db[2], SystemEntry("Session started"))
    /\ pc' = [pc EXCEPT ![c] = "receive"]
    /\ UNCHANGED <<ws_open, turns, turn, gen, events, frames, summary_tasks,
                   db_summaries>>

\* the client closes its end
ClientClose(c) ==
    /\ pc[c] \in {"receive", "turn"}
    /\ ws_open[c]
    /\ Note(c, "close", NoFrame, NoChunk, NoExc)
    /\ ws_open' = [ws_open EXCEPT ![c] = FALSE]
    /\ UNCHANGED <<sessions, session_state, active_connections, pc, session_id,
                   turns, turn, gen, events, frames, db_events, db_sessions,
                   summary_tasks, db_summaries>>

\* the endpoint ending on WebSocketDisconnect without its disconnect call
ReceiveDisconnectOnly(c, db) ==
    /\ pc[c] = "receive"
    /\ ~ws_open[c]
    /\ Note(c, "disconnect", NoFrame, NoChunk, NoExc)
    /\ pc' = [pc EXCEPT ![c] = "closed"]
    /\ UNCHANGED <<sessions, session_state, active_connections, session_id, ws_open,
                   turns, turn, gen, events, frames, db_events, db_sessions,
                   summary_tasks, db_summaries>>

\* receive_text raises WebSocketDisconnect (258, 269-270)
ReceiveDisconnect(c, db) ==
    /\ pc[c] = "receive"
    /\ ~ws_open[c]
    /\ Note(c, "disconnect", NoFrame, NoChunk, NoExc)
    /\ disconnect(c, db_events, db[1])
    /\ UNCHANGED <<session_state, session_id, ws_open, turns, turn, gen, events,
                   frames, db_sessions>>

\* the message body of an inbound frame (260-264); a frame is
\* [kind, text, has_message, message]: kind "text" is not JSON, "object" a
\* JSON object, "value" any other JSON document
ParsesToObject(frame) == frame.kind = "object"
RaisesOnGet(frame) == frame.kind = "value"
MessageContentRaw(frame) == frame.text
MessageContent(frame) ==
    IF ParsesToObject(frame) /\ frame.has_message THEN frame.message ELSE frame.text

\* lines 123-149 and the generator up to its first await (58-71)
StartTurn(c, w, o, content, db) ==
    LET sid == session_id[c]
        st1 == add_message(session_state[o], Message("user", content))
        routing_decision == analyze_conversation_context(st1)
        st2 == add_routing_decision(st1, routing_decision)
        system_prompt == get_system_prompt(routing_decision)
        history == [i \in 1..Len(st2.messages) |-> ToDict(st2.messages[i])]
        full_messages == <<Msg("system", <<system_prompt>>, <<>>, "")>> \o history
    IN /\ session_state' = [session_state EXCEPT ![o] = st2]
       /\ db_events' = Logged(db_events, sid, db[1], UserEntry(content))
       /\ turn' = [turn EXCEPT ![c] =
                     [NoTurn EXCEPT !.websocket = w, !.state = o, !.outcome = "running",
                                    !.prev = turn[c].outcome,
                                    !.log_mark = Len(Logged(db_events, sid, db[1],
                                                            UserEntry(content))[sid])]]
       /\ gen' = [gen EXCEPT ![c] =
                    [NoGen EXCEPT !.pc = "req1", !.full_messages = full_messages,
                                  !.requests = <<[tools |-> TRUE,
                                                  messages |-> full_messages]>>]]
       /\ pc' = [pc EXCEPT ![c] = "turn"]
       /\ sessions' = get_session(sessions, sid).registry
       /\ UNCHANGED <<active_connections, summary_tasks, db_summaries>>

RECURSIVE SumOver(_, _)
SumOver(f, S) ==
    IF S = {} THEN 0
    ELSE LET x == CHOOSE y \in S : TRUE IN f[x] + SumOver(f, S \ {x})

TurnsTaken == SumOver(turns, Conn)

\* one inbound frame: receive_text, the parse, handle_message up to the first
\* request (256-267, 96-149)
HandleMessage(c, frame, db) ==
    LET sid == session_id[c]
        w == active_connections[sid]
        o == get_session(sessions, sid).state
    IN /\ pc[c] = "receive"
       /\ ws_open[c]
       /\ TurnsTaken < MaxTurns
       /\ Note(c, "frame", frame, NoChunk, NoExc)
       /\ turns' = [turns EXCEPT ![c] = @ + 1]
       /\ events' = [events EXCEPT ![c] = <<>>]
       /\ frames' = [frames EXCEPT ![c] = <<>>]
       /\ UNCHANGED <<session_id, ws_open, db_sessions>>
       /\ IF RaisesOnGet(frame)
          THEN /\ disconnect(c, db_events, db[1])
               /\ turn' = [turn EXCEPT ![c] = [NoTurn EXCEPT !.outcome = "bad_frame",
                                                             !.prev = turn[c].outcome]]
               /\ gen' = [gen EXCEPT ![c] = NoGen]
               /\ UNCHANGED session_state
          ELSE IF w = None \/ o = None
          THEN /\ turn' = [turn EXCEPT ![c] = [NoTurn EXCEPT !.outcome = "returned",
                                                             !.prev = turn[c].outcome]]
               /\ gen' = [gen EXCEPT ![c] = NoGen]
               /\ sessions' = IF w = None THEN sessions
                              ELSE get_session(sessions, sid).registry
               /\ UNCHANGED <<session_state, active_connections, pc,
                              db_events, summary_tasks, db_summaries>>
          ELSE StartTurn(c, w, o, MessageContent(frame), db)

\* the first request returns its stream (63-71)
FirstResponse(c) ==
    /\ TurnAt(c, {"req1"})
    /\ Note(c, "response", NoFrame, NoChunk, NoExc)
    /\ Drive(c, [g |-> [gen[c] EXCEPT !.pc = "stream1"], ev |-> NoEvent], <<TRUE, TRUE>>)

\* the second request returns its stream (194-200)
SecondResponse(c) ==
    /\ TurnAt(c, {"req2"})
    /\ Note(c, "response", NoFrame, NoChunk, NoExc)
    /\ Drive(c, [g |-> [gen[c] EXCEPT !.pc = "stream2"], ev |-> NoEvent], <<TRUE, TRUE>>)

\* a request or a stream raises e
UpstreamError(c, e, db) ==
    /\ TurnAt(c, {"req1", "stream1", "req2", "stream2"})
    /\ Note(c, "error", NoFrame, NoChunk, e)
    /\ Drive(c, Catch(gen[c], e), db)

FirstStreamChunk(c, chunk, db) ==
    /\ TurnAt(c, {"stream1"})
    /\ gen[c].chunks < MaxChunks
    /\ Note(c, "chunk", NoFrame, chunk, NoExc)
    /\ Drive(c, FirstChunk(gen[c], chunk), db)

FirstStreamEnd(c, db) ==
    /\ TurnAt(c, {"stream1"})
    /\ Note(c, "end", NoFrame, NoChunk, NoExc)
    /\ Drive(c, FirstEnd(gen[c]), db)

\* the generator resumes after its tool_call event
ExecuteTool(c, db) ==
    /\ TurnAt(c, {"exec"})
    /\ Note(c, "resume", NoFrame, NoChunk, NoExc)
    /\ Drive(c, ExecuteEntry(gen[c]), db)

\* the generator resumes after its tool_result event
NextTool(c, db) ==
    /\ TurnAt(c, {"next"})
    /\ Note(c, "resume", NoFrame, NoChunk, NoExc)
    /\ Drive(c, Continue(gen[c], gen[c].idx + 1), db)

SecondStreamChunk(c, chunk, db) ==
    /\ TurnAt(c, {"stream2"})
    /\ gen[c].chunks < MaxChunks
    /\ Note(c, "chunk", NoFrame, chunk, NoExc)
    /\ Drive(c, SecondChunk(gen[c], chunk), db)

SecondStreamEnd(c, db) ==
    /\ TurnAt(c, {"stream2"})
    /\ Note(c, "end", NoFrame, NoChunk, NoExc)
    /\ Drive(c, [g |-> [gen[c] EXCEPT !.pc = "done"], ev |-> DoneEvent], db)

(***************************************************************************)
(* The summarizer task (app/tasks/summarization.py)                        *)
(***************************************************************************)
\* a connection disconnects once, so there are no more tasks than connections
TaskIds == 1..Cardinality(Conn)

\* a line of the transcript: its label and the content column of the row it
\* renders (the text of a user message, the JSON object of a tool row)
Line(label, row) ==
    [label |-> label, content |-> row.content, tool |-> row.tool,
     arguments |-> row.arguments, result |-> row.result]

\* the loop body rendering the tokens of the assistant too
ConversationLineWithTokens(event) ==
    IF event.event_type = "user_message" THEN <<Line("User", event)>>
    ELSE IF event.event_type = "ai_token" THEN <<Line("Assistant", event)>>
    ELSE IF event.event_type = "tool_call" THEN <<Line("Tool Call", event)>>
    ELSE IF event.event_type = "tool_result" THEN <<Line("Tool Result", event)>>
    ELSE <<>>

\* the body of the loop of _build_conversation_text (summarization.py 80-92):
\* what one event appends to conversation_lines
ConversationLine(event) ==
    IF event.event_type = "user_message" THEN <<Line("User", event)>>
    ELSE IF event.event_type = "ai_token" THEN <<>>
    ELSE IF event.event_type = "tool_call" THEN <<Line("Tool Call", event)>>
    ELSE IF event.event_type = "tool_result" THEN <<Line("Tool Result", event)>>
    ELSE <<>>

\* _build_conversation_text (summarization.py 68-94): the lines appended to
\* conversation_lines, in order; the text returned is these lines, one a line
RECURSIVE build_conversation_text(_)
build_conversation_text(rows) ==
    IF rows = <<>> THEN <<>>
    ELSE ConversationLine(Head(rows)) \o build_conversation_text(Tail(rows))

SummaryText == "summary"
SummaryEmpty == "No summary generated"
SummaryFailed == "Summary generation failed"

\* _generate_summary_with_llm from the end of its request (120-138): reply is
\* "text" for a completion with content, "empty" for one without, "raise" for
\* a request that raises
SummaryOf(reply) ==
    IF reply = "text" THEN SummaryText
    ELSE IF reply = "empty" THEN SummaryEmpty
    ELSE SummaryFailed

\* the summarizer without its test for an empty event list
SummaryStartUnchecked(k, ok) ==
    LET t == summary_tasks[k]
        loaded == IF ok THEN db_events[t.session_id] ELSE <<>>
    IN /\ k <= Len(summary_tasks)
       /\ t.pc = "scheduled"
       /\ summary_tasks' =
              [summary_tasks EXCEPT ![k] =
                  [t EXCEPT !.pc = "request", !.seen = loaded, !.requests = @ + 1,
                            !.conversation_text = build_conversation_text(loaded)]]
       /\ UNCHANGED <<sessions, session_state, active_connections, pc, session_id,
                      ws_open, turns, turn, gen, events, frames, db_events,
                      db_sessions, db_summaries, inputs>>

\* generate_session_summary from its start to the upstream request (31-45,
\* 108-121); ok = FALSE when get_session_events fails, which returns []
SummaryStart(k, ok) ==
    LET t == summary_tasks[k]
        loaded == IF ok THEN db_events[t.session_id] ELSE <<>>
    IN /\ k <= Len(summary_tasks)
       /\ t.pc = "scheduled"
       /\ summary_tasks' =
              [summary_tasks EXCEPT ![k] =
                  IF loaded = <<>> THEN [t EXCEPT !.pc = "finished"]
                  ELSE [t EXCEPT !.pc = "request", !.seen = loaded, !.requests = @ + 1,
                                 !.conversation_text = build_conversation_text(loaded)]]
       /\ UNCHANGED <<sessions, session_state, active_connections, pc, session_id,
                      ws_open, turns, turn, gen, events, frames, db_events,
                      db_sessions, db_summaries, inputs>>

\* the summarizer starting over after a failure
SummaryResponseRetrying(k, reply, parses, ok) ==
    LET t == summary_tasks[k]
        sid == t.session_id
        failed == reply = "raise" \/ ~parses \/ ~ok
    IN /\ k <= Len(summary_tasks)
       /\ t.pc = "request"
       /\ summary_tasks' =
              [summary_tasks EXCEPT ![k] =
                  IF failed
                  THEN [t EXCEPT !.pc = "scheduled", !.summary = SummaryOf(reply),
                                 !.updates = IF parses THEN @ + 1 ELSE @]
                  ELSE [t EXCEPT !.pc = "finished", !.updates = @ + 1,
                                 !.summary = SummaryOf(reply), !.stored = "true"]]
       /\ db_summaries' =
              IF parses /\ ok /\ sid \in db_sessions
              THEN [db_summaries EXCEPT ![sid] = Append(@, SummaryOf(reply))]
              ELSE db_summaries
       /\ UNCHANGED <<sessions, session_state, active_connections, pc, session_id,
                      ws_open, turns, turn, gen, events, frames, db_events,
                      db_sessions, inputs>>

\* the summarizer stopping when its upstream request failed
SummaryResponseStopping(k, reply, parses, ok) ==
    LET t == summary_tasks[k]
        sid == t.session_id
        goes == parses /\ reply # "raise"
    IN /\ k <= Len(summary_tasks)
       /\ t.pc = "request"
       /\ summary_tasks' =
              [summary_tasks EXCEPT ![k] =
                  IF goes
                  THEN [t EXCEPT !.pc = "finished", !.updates = @ + 1,
                                 !.summary = SummaryOf(reply),
                                 !.stored = IF ok /\ sid \in db_sessions
                                            THEN "true" ELSE "false"]
                  ELSE [t EXCEPT !.pc = "finished", !.summary = SummaryOf(reply),
                                 !.caught = IF parses THEN "" ELSE "timestamp"]]
       /\ db_summaries' =
              IF goes /\ ok /\ sid \in db_sessions
              THEN [db_summaries EXCEPT ![sid] = Append(@, SummaryOf(reply))]
              ELSE db_summaries
       /\ UNCHANGED <<sessions, session_state, active_connections, pc, session_id,
                      ws_open, turns, turn, gen, events, frames, db_events,
                      db_sessions, inputs>>

\* generate_session_summary from the answer of the upstream to its end (45-65);
\* parses = FALSE when a timestamp of the loaded rows is not in a format
\* fromisoformat takes, ok = FALSE when update_session_summary fails
SummaryResponse(k, reply, parses, ok) ==
    LET t == summary_tasks[k]
        sid == t.session_id
    IN /\ k <= Len(summary_tasks)
       /\ t.pc = "request"
       /\ summary_tasks' =
              [summary_tasks EXCEPT ![k] =
                  IF parses
                  THEN [t EXCEPT !.pc = "finished", !.updates = @ + 1,
                                 !.summary = SummaryOf(reply),
                                 !.stored = IF ok /\ sid \in db_sessions
                                            THEN "true" ELSE "false"]
                  ELSE [t EXCEPT !.pc = "finished", !.summary = SummaryOf(reply),
                                 !.caught = "timestamp"]]
       /\ db_summaries' =
              IF parses /\ ok /\ sid \in db_sessions
              THEN [db_summaries EXCEPT ![sid] = Append(@, SummaryOf(reply))]
              ELSE db_summaries
       /\ UNCHANGED <<sessions, session_state, active_connections, pc, session_id,
                      ws_open, turns, turn, gen, events, frames, db_events,
                      db_sessions, inputs>>

(***************************************************************************)
(* Inputs                                                                  *)
(***************************************************************************)
DbUp == {<<TRUE, TRUE>>}
DbAny == [DbCalls -> BOOLEAN]
SummaryReplies == {"text", "empty", "raise"}

TextFrame(text) == [kind |-> "text", text |-> text, has_message |-> FALSE, message |-> <<>>]
ObjectFrame(text, message) ==
    [kind |-> "object", text |-> text, has_message |-> TRUE, message |-> message]

FramesSmall == { TextFrame(<<"h","i">>) }
FramesSession ==
    { TextFrame(<<"h","i">>),
      [kind |-> "value", text |-> <<"5">>, has_message |-> FALSE, message |-> <<>>] }
FramesAll ==
    { TextFrame(<<"h","i">>),
      ObjectFrame(<<"{","m",":","W","h","y","}">>, <<"W","h","y">>),
      [kind |-> "object", text |-> <<"{","}">>, has_message |-> FALSE, message |-> <<>>],
      [kind |-> "value", text |-> <<"5">>, has_message |-> FALSE, message |-> <<>>] }

NoBody == [shape |-> "absent", code |-> "", message |-> [kind |-> "absent", text |-> <<>>]]
Exc(cls, status_code, body, text) ==
    [cls |-> cls, status_code |-> status_code, body |-> body, text |-> text]

MessageValues ==
    { [kind |-> "absent", text |-> <<>>], [kind |-> "null", text |-> <<>>],
      [kind |-> "nonstr", text |-> <<>>], [kind |-> "str", text |-> TextPlain],
      [kind |-> "str", text |-> TextRateLimit], [kind |-> "str", text |-> TextInvalidKey] }

Bodies ==
    {NoBody} \cup
    [shape : {"nested", "flat", "other"},
     code : {"", "insufficient_quota", "rate_limit_exceeded"},
     message : MessageValues]

ErrorsAll ==
    { Exc("RateLimitError", StatusTooManyRequests, NoBody, TextPlain),
      Exc("APIConnectionError", StatusNone, NoBody, TextPlain),
      Exc("APITimeoutError", StatusNone, NoBody, TextPlain),
      Exc("Exception", StatusNone, NoBody, TextPlain) }
    \cup { Exc("APIError", StatusNone, b, TextPlain) : b \in Bodies }
    \cup { Exc("APIStatusError", sc, b, tx) :
             sc \in {StatusUnauthorized, StatusNotFound, StatusTooManyRequests, 500},
             b \in Bodies,
             tx \in {TextPlain, TextInvalidKey, TextModelNotFound} }

ErrorsTurn ==
    { Exc("RateLimitError", StatusTooManyRequests, NoBody, TextPlain),
      Exc("APITimeoutError", StatusNone, NoBody, TextPlain),
      Exc("Exception", StatusNone, NoBody, TextPlain),
      Exc("APIStatusError", StatusUnauthorized, NoBody, TextPlain),
      Exc("APIStatusError", 500,
          [shape |-> "nested", code |-> "", message |-> [kind |-> "null", text |-> <<>>]],
          TextPlain) }

ErrorsSmall ==
    { Exc("Exception", StatusNone, NoBody, TextPlain),
      Exc("APIStatusError", 500,
          [shape |-> "nested", code |-> "", message |-> [kind |-> "null", text |-> <<>>]],
          TextPlain) }

Frag(index, name, arguments) == Fragment(index, "id", TRUE, name, arguments)

ChunksText == { Chunk(TRUE, <<"a">>, <<>>, None) }

ChunksSmall ==
    { Chunk(TRUE, <<"a">>, <<>>, None),
      Chunk(TRUE, <<>>, <<Frag(0, "lookup_contextual_data", "{session_id:s}")>>, "tool_calls") }

ChunksAll ==
    ChunksSmall \cup
    { Chunk(FALSE, <<>>, <<>>, None),
      Chunk(TRUE, <<"b">>, <<>>, "stop"),
      Chunk(TRUE, <<>>, <<>>, "tool_calls"),
      Chunk(TRUE, <<"b">>, <<Frag(0, "fetch_internal_knowledge", "{topic:")>>, None),
      Chunk(TRUE, <<>>, <<Frag(0, "", "python}")>>, "tool_calls"),
      Chunk(TRUE, <<>>, <<Frag(1, "unknown_tool", "{}")>>, "tool_calls"),
      Chunk(TRUE, <<>>, <<Frag(0, "fetch_internal_knowledge", "5"),
                          Fragment(1, "", FALSE, "", "")>>, "tool_calls") }

\* a text chunk, a call of a registered tool, and three calls of a tool that
\* is not registered
ChunksRounds ==
    ChunksSmall \cup
    { Chunk(TRUE, <<>>, <<Frag(0, "unknown_tool", "{}"), Frag(1, "unknown_tool", "{}"),
                          Frag(2, "unknown_tool", "{}")>>, "tool_calls") }

(***************************************************************************)
(* Specifications                                                          *)
(***************************************************************************)
Init ==
    /\ sessions = [s \in SessionIds |-> None]
    /\ session_state = [c \in Conn |-> NoSessionState]
    /\ active_connections = [s \in SessionIds |-> None]
    /\ pc = [c \in Conn |-> "idle"]
    /\ session_id = [c \in Conn |-> None]
    /\ ws_open = [c \in Conn |-> TRUE]
    /\ turns = [c \in Conn |-> 0]
    /\ turn = [c \in Conn |-> NoTurn]
    /\ gen = [c \in Conn |-> NoGen]
    /\ events = [c \in Conn |-> <<>>]
    /\ frames = [c \in Conn |-> <<>>]
    /\ db_events = [s \in SessionIds |-> <<>>]
    /\ db_sessions = {}
    /\ summary_tasks = <<>>
    /\ db_summaries = [s \in SessionIds |-> <<>>]
    /\ inputs = NoInputs

\* Two connections over the shared registry; the upstream answers with text
\* (at most one chunk a stream) or fails, and persistence succeeds.
\* Connections and session ids are interchangeable, so c1 connects with s1.
Next ==
    \E c \in Conn, db \in DbUp :
        \/ \E sid \in (IF c = "c1" THEN {"s1"} ELSE SessionIds) : Connect(c, sid, None, db)
        \/ ClientClose(c)
        \/ ReceiveDisconnect(c, db)
        \/ \E frame \in FramesSmall : HandleMessage(c, frame, db)
        \/ FirstResponse(c)
        \/ \E e \in ErrorsSmall : UpstreamError(c, e, db)
        \/ \E chunk \in ChunksText : gen[c].chunks = 0 /\ FirstStreamChunk(c, chunk, db)
        \/ FirstStreamEnd(c, db)

Spec == Init /\ [][Next]_vars

\* One connection over several turns; the upstream answers with text or one
\* tool call, or fails.
NextSession ==
    \E c \in {"c1"}, db \in DbUp :
        \/ Connect(c, "s1", None, db)
        \/ ClientClose(c)
        \/ ReceiveDisconnect(c, db)
        \/ \E frame \in FramesSession : HandleMessage(c, frame, db)
        \/ FirstResponse(c)
        \/ \E e \in ErrorsSmall : UpstreamError(c, e, db)
        \/ \E chunk \in ChunksSmall : FirstStreamChunk(c, chunk, db)
        \/ FirstStreamEnd(c, db)
        \/ ExecuteTool(c, db)
        \/ NextTool(c, db)
        \/ SecondResponse(c)
        \/ \E chunk \in ChunksSmall : SecondStreamChunk(c, chunk, db)
        \/ SecondStreamEnd(c, db)

SpecSession == Init /\ [][NextSession]_vars

\* The first turn of one connection, under every modelled upstream behaviour.
NextTurn ==
    \E c \in {"c1"}, db \in DbUp :
        \/ \E sid \in {"s1"}, uid \in UserIds : Connect(c, sid, uid, db)
        \/ ClientClose(c)
        \/ ReceiveDisconnect(c, db)
        \/ \E frame \in FramesAll : turns[c] = 0 /\ HandleMessage(c, frame, db)
        \/ FirstResponse(c)
        \/ \E e \in ErrorsTurn : UpstreamError(c, e, db)
        \/ \E chunk \in ChunksAll : FirstStreamChunk(c, chunk, db)
        \/ FirstStreamEnd(c, db)
        \/ ExecuteTool(c, db)
        \/ NextTool(c, db)
        \/ SecondResponse(c)
        \/ \E chunk \in ChunksAll : SecondStreamChunk(c, chunk, db)
        \/ SecondStreamEnd(c, db)

SpecTurn == Init /\ [][NextTurn]_vars

\* One connection with one turn of text, its disconnect and the summarizer
\* task it schedules; every persistence call works or fails.
NextSummary ==
    \/ \E c \in {"c1"}, db \in DbAny :
          \/ Connect(c, "s1", None, db)
          \/ ClientClose(c)
          \/ ReceiveDisconnect(c, db)
          \/ \E frame \in FramesSession : turns[c] = 0 /\ HandleMessage(c, frame, db)
          \/ FirstResponse(c)
          \/ \E e \in ErrorsSmall : UpstreamError(c, e, db)
          \/ \E chunk \in ChunksText : FirstStreamChunk(c, chunk, db)
          \/ FirstStreamEnd(c, db)
    \/ \E k \in TaskIds, ok \in BOOLEAN :
          \/ SummaryStart(k, ok)
          \/ \E reply \in SummaryReplies, parses \in BOOLEAN :
                SummaryResponse(k, reply, parses, ok)

SpecSummary == Init /\ [][NextSummary]_vars

\* One connection over several turns of text, any of which the upstream may
\* fail, before or after tokens.
NextRetry ==
    \E c \in {"c1"}, db \in DbUp :
        \/ Connect(c, "s1", None, db)
        \/ \E frame \in FramesSmall : HandleMessage(c, frame, db)
        \/ FirstResponse(c)
        \/ \E e \in ErrorsSmall : UpstreamError(c, e, db)
        \/ \E chunk \in ChunksText : FirstStreamChunk(c, chunk, db)
        \/ FirstStreamEnd(c, db)

SpecRetry == Init /\ [][NextRetry]_vars

\* One connection over several turns, each of text or with a tool round
\* whose calls succeed or fail; the upstream does not fail.
NextRounds ==
    \E c \in {"c1"}, db \in DbUp :
        \/ Connect(c, "s1", None, db)
        \/ \E frame \in FramesSmall : HandleMessage(c, frame, db)
        \/ FirstResponse(c)
        \/ \E chunk \in ChunksRounds : gen[c].chunks = 0 /\ FirstStreamChunk(c, chunk, db)
        \/ FirstStreamEnd(c, db)
        \/ ExecuteTool(c, db)
        \/ NextTool(c, db)
        \/ SecondResponse(c)
        \/ \E chunk \in ChunksText : gen[c].chunks = 0 /\ SecondStreamChunk(c, chunk, db)
        \/ SecondStreamEnd(c, db)

SpecRounds == Init /\ [][NextRounds]_vars

\* The life of one connection, with or without turns, and the summarizer of
\* its session; every persistence call works.
NextLifecycle ==
    \/ \E c \in {"c1"}, db \in DbUp :
          \/ Connect(c, "s1", None, db)
          \/ ClientClose(c)
          \/ ReceiveDisconnect(c, db)
          \/ \E frame \in FramesSession : HandleMessage(c, frame, db)
          \/ FirstResponse(c)
          \/ \E e \in ErrorsSmall : UpstreamError(c, e, db)
          \/ \E chunk \in ChunksText : FirstStreamChunk(c, chunk, db)
          \/ FirstStreamEnd(c, db)
    \/ \E k \in {1} :
          \/ SummaryStart(k, TRUE)
          \/ \E reply \in SummaryReplies, parses \in BOOLEAN :
                SummaryResponse(k, reply, parses, TRUE)

SpecLifecycle == Init /\ [][NextLifecycle]_vars

\* One turn with a tool round and the summarizer of its session; persistence
\* works but for the loading of the rows, which works or fails.
NextTranscript ==
    \/ \E c \in {"c1"}, db \in DbUp :
          \/ Connect(c, "s1", None, db)
          \/ ClientClose(c)
          \/ ReceiveDisconnect(c, db)
          \/ \E frame \in FramesSmall : turns[c] = 0 /\ HandleMessage(c, frame, db)
          \/ FirstResponse(c)
          \/ \E chunk \in ChunksSmall : FirstStreamChunk(c, chunk, db)
          \/ FirstStreamEnd(c, db)
          \/ ExecuteTool(c, db)
          \/ NextTool(c, db)
          \/ SecondResponse(c)
          \/ \E chunk \in ChunksText : SecondStreamChunk(c, chunk, db)
          \/ SecondStreamEnd(c, db)
    \/ \E k \in {1}, ok \in BOOLEAN :
          \/ SummaryStart(k, ok)
          \/ SummaryResponse(k, "text", TRUE, ok)

SpecTranscript == Init /\ [][NextTranscript]_vars

\* Two runs of one turn, side by side: c1 on s1 with persistence working, c2
\* on s2 with every persistence call working or failing. The history is
\* recorded, and c2 is given, step by step, what c1 was given.
InitPersist ==
    /\ sessions = [s \in SessionIds |-> None]
    /\ session_state = [c \in Conn |-> NoSessionState]
    /\ active_connections = [s \in SessionIds |-> None]
    /\ pc = [c \in Conn |-> "idle"]
    /\ session_id = [c \in Conn |-> None]
    /\ ws_open = [c \in Conn |-> TRUE]
    /\ turns = [c \in Conn |-> 0]
    /\ turn = [c \in Conn |-> NoTurn]
    /\ gen = [c \in Conn |-> NoGen]
    /\ events = [c \in Conn |-> <<>>]
    /\ frames = [c \in Conn |-> <<>>]
    /\ db_events = [s \in SessionIds |-> <<>>]
    /\ db_sessions = {}
    /\ summary_tasks = <<>>
    /\ db_summaries = [s \in SessionIds |-> <<>>]
    /\ inputs = [NoInputs EXCEPT !.on = TRUE]

SidOf(c) == IF c = "c1" THEN "s1" ELSE "s2"

\* c1 leads by one step, with persistence working; c2 takes the step c1 took
\* at the same place of its history
Given(c, db, op, frame, chunk, e) ==
    IF c = "c1" THEN db = <<TRUE, TRUE>> /\ Len(inputs.of["c2"]) = Len(inputs.of[c])
    ELSE LET n == Len(inputs.of[c])
         IN /\ n < Len(inputs.of["c1"])
            /\ inputs.of["c1"][n + 1] = Input(op, frame, chunk, e)

NextPersist ==
    \E c \in Conn, db \in DbAny :
        \/ Given(c, db, "connect", NoFrame, NoChunk, NoExc)
              /\ Connect(c, SidOf(c), None, db)
        \/ Given(c, db, "close", NoFrame, NoChunk, NoExc) /\ ClientClose(c)
        \/ Given(c, db, "disconnect", NoFrame, NoChunk, NoExc) /\ ReceiveDisconnect(c, db)
        \/ \E frame \in FramesSession :
              /\ Given(c, db, "frame", frame, NoChunk, NoExc)
              /\ turns[c] = 0
              /\ HandleMessage(c, frame, db)
        \/ Given(c, db, "response", NoFrame, NoChunk, NoExc) /\ FirstResponse(c)
        \/ \E e \in ErrorsSmall :
              Given(c, db, "error", NoFrame, NoChunk, e) /\ UpstreamError(c, e, db)
        \/ \E chunk \in ChunksSmall :
              Given(c, db, "chunk", NoFrame, chunk, NoExc) /\ FirstStreamChunk(c, chunk, db)
        \/ Given(c, db, "end", NoFrame, NoChunk, NoExc) /\ FirstStreamEnd(c, db)
        \/ Given(c, db, "resume", NoFrame, NoChunk, NoExc) /\ ExecuteTool(c, db)
        \/ Given(c, db, "resume", NoFrame, NoChunk, NoExc) /\ NextTool(c, db)
        \/ Given(c, db, "response", NoFrame, NoChunk, NoExc) /\ SecondResponse(c)
        \/ \E chunk \in ChunksText :
              Given(c, db, "chunk", NoFrame, chunk, NoExc) /\ SecondStreamChunk(c, chunk, db)
        \/ Given(c, db, "end", NoFrame, NoChunk, NoExc) /\ SecondStreamEnd(c, db)

SpecPersist == InitPersist /\ [][NextPersist]_vars

\* The first turn of one connection whose client stays, with the history of
\* what it was given recorded: every frame and every chunk of the first stream.
NextTrace ==
    \E c \in {"c1"}, db \in DbUp :
        \/ Connect(c, "s1", None, db)
        \/ \E frame \in FramesAll : turns[c] = 0 /\ HandleMessage(c, frame, db)
        \/ FirstResponse(c)
        \/ \E e \in ErrorsSmall : UpstreamError(c, e, db)
        \/ \E chunk \in ChunksAll : FirstStreamChunk(c, chunk, db)
        \/ FirstStreamEnd(c, db)
        \/ ExecuteTool(c, db)
        \/ NextTool(c, db)
        \/ SecondResponse(c)
        \/ \E chunk \in ChunksText : SecondStreamChunk(c, chunk, db)
        \/ SecondStreamEnd(c, db)

SpecTrace == InitPersist /\ [][NextTrace]_vars

\* The conversion of upstream failures: the first request of a turn raises
\* any of the modelled exceptions; the history records which.
NextErrors ==
    \E c \in {"c1"}, db \in DbUp :
        \/ Connect(c, "s1", None, db)
        \/ \E frame \in FramesSmall : turns[c] = 0 /\ HandleMessage(c, frame, db)
        \/ \E e \in ErrorsAll : gen[c].pc = "req1" /\ UpstreamError(c, e, db)

SpecErrors == InitPersist /\ [][NextErrors]_vars

(***************************************************************************)
(* The classifier on its own: a session that has come through n turns of   *)
(* "hi" (with or without an assistant reply each, and with the tool        *)
(* results of its first turn) receives one more frame.                     *)
(***************************************************************************)
RECURSIVE AddToolOutputs(_, _)
AddToolOutputs(state, n) ==
    IF n = 0 THEN state
    ELSE AddToolOutputs(
             add_tool_output(state, "lookup_contextual_data",
                             lookup_contextual_data("s")), n - 1)

RECURSIVE Transcript(_, _, _)
Transcript(n, tools, replies) ==
    IF n = 0 THEN NewSessionState("s1", "s1")
    ELSE LET before == Transcript(n - 1, tools, replies)
             st1 == add_message(before, Message("user", <<"h","i">>))
             st2 == add_routing_decision(st1, analyze_conversation_context(st1))
             st3 == IF n = 1 THEN AddToolOutputs(st2, tools) ELSE st2
         IN IF replies THEN add_message(st3, Message("assistant", <<"a">>)) ELSE st3

FramesRouting ==
    { TextFrame(<<>>), TextFrame(<<"h","i">>), TextFrame(<<"w","h">>),
      TextFrame(<<"W","h","y","?">>), TextFrame(<<"s","h","o","w">>),
      TextFrame(<<"H","O","W">>), TextFrame(<<"w","h","o">>),
      TextFrame(<<"A","n","a","l","y","z","e">>),
      TextFrame(<<"e","x","p","l","a","i","n">>),
      TextFrame(<<"e","x","p","l","a","i","m">>),
      TextFrame(<<"C","o","m","p","a","r","e","d">>),
      ObjectFrame(<<"{","m",":","e","v","a","l","u","a","t","e","}">>,
                  <<"e","v","a","l","u","a","t","e">>) }

InitRouting ==
    /\ \E n \in 0..MaxFill, tools \in 0..MaxToolCount, replies \in BOOLEAN :
          /\ (tools > 0 => n > 0)
          /\ session_state = [c \in Conn |-> IF c = "c1" THEN Transcript(n, tools, replies)
                                            ELSE NoSessionState]
    /\ sessions = [s \in SessionIds |-> IF s = "s1" THEN "c1" ELSE None]
    /\ active_connections = [s \in SessionIds |-> IF s = "s1" THEN "c1" ELSE None]
    /\ pc = [c \in Conn |-> IF c = "c1" THEN "receive" ELSE "idle"]
    /\ session_id = [c \in Conn |-> IF c = "c1" THEN "s1" ELSE None]
    /\ ws_open = [c \in Conn |-> TRUE]
    /\ turns = [c \in Conn |-> 0]
    /\ turn = [c \in Conn |-> NoTurn]
    /\ gen = [c \in Conn |-> NoGen]
    /\ events = [c \in Conn |-> <<>>]
    /\ frames = [c \in Conn |-> <<>>]
    /\ db_events = [s \in SessionIds |-> <<>>]
    /\ db_sessions = {}
    /\ summary_tasks = <<>>
    /\ db_summaries = [s \in SessionIds |-> <<>>]
    /\ inputs = NoInputs

NextRouting == \E frame \in FramesRouting : HandleMessage("c1", frame, <<TRUE, TRUE>>)

SpecRouting == InitRouting /\ [][NextRouting]_vars

(***************************************************************************)
(* Properties                                                              *)
(***************************************************************************)
Last(seq) == seq[Len(seq)]
IsTerminalEvent(ev) == ev.type \in {"done", "error"}

\* the generator of c was consumed to its end, or raised
Terminated(c) == gen[c].pc \in {"done", "error", "raised"}

TerminalIndexes(c) == {i \in 1..Len(events[c]) : IsTerminalEvent(events[c][i])}
ToolCallIndexes(c) == {i \in 1..Len(events[c]) : events[c][i].type = "tool_call"}
ToolResultIndexes(c) == {i \in 1..Len(events[c]) : events[c][i].type = "tool_result"}

\* C1: every invocation of stream_response yields an event sequence that
\* holds exactly one done or error event, and that event is the last one.
C1_ExactlyOneTerminalEvent ==
    \A c \in Conn :
        /\ Terminated(c) => TerminalIndexes(c) = {Len(events[c])} /\ events[c] # <<>>
        /\ ~Terminated(c) => TerminalIndexes(c) = {}

\* C2: in a turn that reaches done there are as many tool_call events as
\* tool_result events, and each tool_call for X is directly followed by the
\* tool_result for X.
C2_ToolEventsPaired ==
    \A c \in Conn :
        gen[c].pc = "done" =>
            /\ Cardinality(ToolCallIndexes(c)) = Cardinality(ToolResultIndexes(c))
            /\ \A i \in ToolCallIndexes(c) :
                  /\ i + 1 \in ToolResultIndexes(c)
                  /\ events[c][i + 1].tool = events[c][i].tool
            /\ \A i \in ToolResultIndexes(c) : i - 1 \in ToolCallIndexes(c)

C2_Witness ==
    \E c \in Conn :
        /\ gen[c].pc = "done"
        /\ Cardinality(ToolCallIndexes(c)) >= 2
        /\ \E i \in ToolResultIndexes(c) : events[c][i].result.error # ""
        /\ \E i \in ToolResultIndexes(c) : events[c][i].result.error = ""

UserMessages(state) == {i \in 1..Len(state.messages) : state.messages[i].role = "user"}

\* C3: message_count of every session equals the number of its Messages with
\* role user, in every reachable state.
C3_MessageCountIsUserMessages ==
    \A c \in Conn :
        session_state[c].message_count = Cardinality(UserMessages(session_state[c]))

C3_Witness ==
    \E c \in Conn :
        /\ turn[c].outcome = "driver_error"
        /\ turn[c].prev = "done"
        /\ session_state[turn[c].state].message_count = 2
        /\ \E i \in 1..Len(session_state[turn[c].state].messages) :
              session_state[turn[c].state].messages[i].role = "assistant"

\* C4: at most one turn is in flight for a session id at any time.
C4_OneTurnPerSession ==
    \A c, d \in Conn :
        (c # d /\ pc[c] = "turn" /\ pc[d] = "turn") => session_id[c] # session_id[d]

\* C5: create_session never replaces the Session registered under an id: an
\* entry of the registry changes only by being removed.
C5_CreateNeverOverwrites ==
    [][\A s \in SessionIds :
          sessions[s] # None => sessions'[s] \in {sessions[s], None}]_vars

\* C6: an upstream failure, at either request or in either stream, becomes
\* exactly one error event, the last of the turn; no exception leaves
\* stream_response and no done event is emitted.
C6_FailureBecomesOneErrorEvent ==
    \A c \in Conn :
        gen[c].failed_at # "" =>
            /\ gen[c].pc = "error"
            /\ events[c] # <<>>
            /\ Last(events[c]).type = "error"
            /\ \A i \in 1..(Len(events[c]) - 1) : ~IsTerminalEvent(events[c][i])

\* no other connection has used the session id of c
Unshared(c) == \A d \in Conn \ {c} : session_id[d] # session_id[c]

YieldsError(c) ==
    /\ Len(events'[c]) = Len(events[c]) + 1
    /\ Last(events'[c]).type = "error"

AfterErrorTurn(c) ==
    pc[c] = "receive" /\ events[c] # <<>> /\ Last(events[c]).type = "error"

\* C7: the step in which a turn ends with the orchestrator's error event
\* (its frame going out to an open client) returns the connection to its
\* receive loop without touching the registry or the connection table and
\* without running the disconnect handler; a connection that shares its
\* session id with no other is then still registered, and the next inbound
\* frame starts a new turn.
C7_ErrorTurnKeepsSession ==
    /\ [][\A c \in Conn :
            (YieldsError(c) /\ ws_open[turn[c].websocket]) =>
                /\ pc'[c] = "receive"
                /\ sessions' = sessions
                /\ active_connections' = active_connections
                /\ summary_tasks' = summary_tasks]_vars
    /\ [](\A c \in Conn :
            (AfterErrorTurn(c) /\ Unshared(c)) =>
                /\ sessions[session_id[c]] = c
                /\ active_connections[session_id[c]] = c)
    /\ [][\A c \in Conn :
            (AfterErrorTurn(c) /\ Unshared(c) /\ turns'[c] = turns[c] + 1) =>
                /\ pc'[c] = "turn"
                /\ turn'[c].outcome = "running"
                /\ session_state'[c].message_count = session_state[c].message_count + 1]_vars

C7_Witness ==
    \E c \in Conn :
        /\ Unshared(c)
        /\ turn[c].prev = "error"
        /\ pc[c] = "turn"
        /\ session_state[c].message_count = 2

UnknownCalls(c) == {i \in ToolCallIndexes(c) : events[c][i].tool \notin TOOL_EXECUTORS}

\* C8: a tool_call for a name that is not registered is followed by the
\* tool_result for it, whose result carries an error; no error event is
\* emitted for it, and without an upstream failure the turn ends with done.
C8_UnknownToolIsAResult ==
    \A c \in Conn :
        \A i \in UnknownCalls(c) :
            /\ i < Len(events[c]) =>
                  /\ events[c][i + 1].type = "tool_result"
                  /\ events[c][i + 1].tool = events[c][i].tool
                  /\ events[c][i + 1].result.error # ""
            /\ i = Len(events[c]) => gen[c].pc \in {"exec", "abandoned"}
            /\ gen[c].failed_at = "" =>
                  /\ \A j \in 1..Len(events[c]) : events[c][j].type # "error"
                  /\ Terminated(c) => gen[c].pc = "done" /\ Last(events[c]).type = "done"

C8_Witness ==
    \E c \in Conn :
        /\ UnknownCalls(c) # {}
        /\ gen[c].pc = "done"
        /\ Last(events[c]).type = "done"

LoggedEvents(c) == SelectSeq(events[c], IsLogged)

\* C9: within a turn whose sends succeed, the frames sent are the events of
\* the orchestrator, one frame an event in the same order, and the log rows
\* written for token, tool_call and tool_result events follow that order.
C9_FramesAndLogFollowEvents ==
    \A c \in Conn :
        turn[c].outcome \in {"running", "done", "error", "driver_error"} =>
            /\ Len(frames[c]) = Len(events[c])
            /\ \A i \in 1..Len(events[c]) : frames[c][i].frame = FrameOf(events[c][i])
            /\ pc[c] = "turn" =>
                  LET log == db_events[session_id[c]]
                  IN /\ Len(log) = turn[c].log_mark + Len(LoggedEvents(c))
                     /\ \A i \in 1..Len(LoggedEvents(c)) :
                           log[turn[c].log_mark + i] = LogOf(LoggedEvents(c)[i])

\* the keyword test of the claim: some keyword occurs in the text at some
\* offset, letter case apart
HasKeywordAt(text, kw, off) ==
    /\ off + Len(kw) <= Len(text)
    /\ \A i \in 1..Len(kw) : LowerChar(text[off + i]) = kw[i]

MentionsKeyword(text) ==
    \E k \in 1..Len(analytical_keywords) :
        \E off \in 0..Len(text) : HasKeywordAt(text, analytical_keywords[k], off)

LatestUserText(state) ==
    LET idx == UserMessages(state)
    IN state.messages[CHOOSE i \in idx : \A j \in idx : j <= i].content

\* the strategy the claim gives for the state the classifier was called in
ClaimedStrategy(state) ==
    IF state.tool_call_count > 2 THEN TOOL_HEAVY
    ELSE IF UserMessages(state) # {} /\ MentionsKeyword(LatestUserText(state))
    THEN ANALYTICAL
    ELSE IF state.message_count > 10 THEN SUMMARIZATION_AWARE
    ELSE FAST_CONCISE

\* C10: the classifier returns TOOL_HEAVY if toolCallCount > 2, otherwise
\* ANALYTICAL if the most recent user message holds a keyword, otherwise
\* SUMMARIZATION_AWARE if userMessageCount > 10, otherwise FAST_CONCISE.
C10_StrategyByPriority ==
    \A c \in Conn :
        pc[c] = "turn" =>
            LET state == session_state[turn[c].state]
            IN /\ state.routing_decisions # <<>>
               /\ Last(state.routing_decisions).strategy = ClaimedStrategy(state)

C10_Witness ==
    \E c \in Conn :
        /\ pc[c] = "turn"
        /\ session_state[c].tool_call_count > 2
        /\ session_state[c].message_count > 10
        /\ MentionsKeyword(LatestUserText(session_state[c]))
        /\ Last(session_state[c].routing_decisions).strategy = TOOL_HEAVY

Closes(c) == pc[c] # "closed" /\ pc'[c] = "closed"

\* C11: the step in which the disconnect handler runs, after a failed send or
\* a client disconnect, writes the "Session ended" system event as its last
\* row (when persistence takes it), removes the session and the connection,
\* and leaves the summarizer as a task that has not started: the handler has
\* returned while the task has made no request and no update.
C11_DisconnectSchedulesSummarizer ==
    [][\A c \in Conn :
          Closes(c) =>
              LET sid == session_id[c]
                  n == Len(summary_tasks)
              IN /\ sessions'[sid] = None
                 /\ active_connections'[sid] = None
                 /\ Len(summary_tasks') = n + 1
                 /\ SubSeq(summary_tasks', 1, n) = summary_tasks
                 /\ summary_tasks'[n + 1].session_id = sid
                 /\ summary_tasks'[n + 1].pc = "scheduled"
                 /\ summary_tasks'[n + 1].requests = 0
                 /\ summary_tasks'[n + 1].updates = 0
                 /\ db_summaries' = db_summaries
                 /\ db_events'[sid] # db_events[sid] =>
                        Last(db_events'[sid]) = SystemEntry("Session ended")]_vars

C11_Witness ==
    \E c \in Conn :
        /\ pc[c] = "closed"
        /\ turn[c].outcome = "aborted"
        /\ sessions[session_id[c]] = None
        /\ db_events[session_id[c]] # <<>>
        /\ Last(db_events[session_id[c]]) = SystemEntry("Session ended")
        /\ \E k \in 1..Len(summary_tasks) :
              /\ summary_tasks[k].session_id = session_id[c]
              /\ summary_tasks[k].pc = "scheduled"

Starts(k) ==
    /\ k <= Len(summary_tasks)
    /\ summary_tasks[k].pc = "scheduled"
    /\ summary_tasks'[k].pc # "scheduled"

\* C12: a summarizer that starts for a session id without logged events ends
\* at once: no upstream request, no update_session_summary call, nothing
\* written to the sessions table, and no exception.
C12_NoEventsNoSummary ==
    /\ [][\A k \in TaskIds :
            (Starts(k) /\ db_events[summary_tasks[k].session_id] = <<>>) =>
                /\ summary_tasks'[k].pc = "finished"
                /\ summary_tasks'[k].seen = <<>>
                /\ db_summaries' = db_summaries]_vars
    /\ [](\A k \in TaskIds :
            (k <= Len(summary_tasks) /\ summary_tasks[k].pc # "scheduled"
               /\ summary_tasks[k].seen = <<>>) =>
                /\ summary_tasks[k].pc = "finished"
                /\ summary_tasks[k].requests = 0
                /\ summary_tasks[k].updates = 0
                /\ ~summary_tasks[k].raised
                /\ db_summaries[summary_tasks[k].session_id] = <<>>)

C12_Witness ==
    \E k \in 1..Len(summary_tasks) :
        /\ summary_tasks[k].pc = "finished"
        /\ summary_tasks[k].seen = <<>>
        /\ db_events[summary_tasks[k].session_id] = <<>>
        /\ summary_tasks[k].session_id \in db_sessions

\* what a client and the protocol layer can tell of connection c: the frames
\* sent, the session state in memory, and where the connection, its turn and
\* its generator stand
Protocol(c) ==
    [pc |-> pc[c],
     open |-> ws_open[c],
     registered |-> session_id[c] # None /\ sessions[session_id[c]] = c,
     connected |-> session_id[c] # None /\ active_connections[session_id[c]] = c,
     outcome |-> turn[c].outcome,
     accumulated_response |-> turn[c].accumulated_response,
     events |-> events[c],
     frames |-> [i \in 1..Len(frames[c]) |-> frames[c][i].frame],
     gen |-> gen[c],
     messages |-> session_state[c].messages,
     tool_outputs |-> session_state[c].tool_outputs,
     routing_decisions |-> session_state[c].routing_decisions,
     message_count |-> session_state[c].message_count,
     tool_call_count |-> session_state[c].tool_call_count]

SameInputs(c, d) == inputs.of[c] = inputs.of[d]

\* C13: two connections that were given the same frames, the same upstream
\* behaviour and the same client behaviour have sent the same frames and hold
\* the same session state, whichever of their create_session and log_event
\* calls failed.
C13_PersistenceDoesNotShow ==
    \A c, d \in Conn : SameInputs(c, d) => Protocol(c) = Protocol(d)

C13_Witness ==
    /\ SameInputs("c1", "c2")
    /\ turn["c2"].outcome = "done"
    /\ session_state["c2"].tool_call_count = 1
    /\ Len(frames["c2"]) >= 4
    /\ "s1" \in db_sessions
    /\ "s2" \notin db_sessions
    /\ Len(db_events["s2"]) < Len(db_events["s1"])

\* C14: after any inbound frame, with the client still there, the connection
\* is usable: the handler has not closed it, its session and its connection
\* are registered, and a failure while handling the frame has been answered
\* with an error frame.
C14_FrameFailureKeepsConnection ==
    \A c \in Conn :
        (turns[c] > 0 /\ ws_open[c]) =>
            /\ pc[c] \in {"receive", "turn"}
            /\ sessions[session_id[c]] = c
            /\ active_connections[session_id[c]] = c
            /\ turn[c].outcome \in {"driver_error", "bad_frame"} =>
                   /\ frames[c] # <<>>
                   /\ Last(frames[c]).frame.type = "error"

\* no two connections have used the same session id
DistinctIds ==
    \A c, d \in Conn :
        (c # d /\ session_id[c] # None) => session_id[c] # session_id[d]

Serving(c) == pc[c] \in {"receive", "turn"}

\* C15: with distinct session ids, the session and the connection of c are
\* registered under its id from the end of connect until its disconnect
\* handler runs, both entries are gone once the handler has run, and nothing
\* is registered that does not belong to a connection being served.
C15_RegisteredWhileConnected ==
    DistinctIds =>
        /\ \A c \in Conn :
              /\ Serving(c) =>
                    /\ sessions[session_id[c]] = c
                    /\ active_connections[session_id[c]] = c
              /\ pc[c] = "closed" =>
                    /\ sessions[session_id[c]] = None
                    /\ active_connections[session_id[c]] = None
        /\ \A s \in SessionIds :
              (sessions[s] # None \/ active_connections[s] # None) =>
                  \E c \in Conn : session_id[c] = s /\ Serving(c)

C15_Witness ==
    /\ DistinctIds
    /\ pc["c1"] = "closed"
    /\ turns["c1"] > 0
    /\ pc["c2"] = "turn"
    /\ sessions["s1"] = None
    /\ sessions["s2"] = "c2"

\* a frame was taken by c and handle_message got past its test for the
\* connection, so that it called get_session
LooksUpSession(c) ==
    /\ turns'[c] = turns[c] + 1
    /\ pc'[c] # "closed"
    /\ active_connections[session_id[c]] # None

\* C16: in every reachable registry, for every id present or absent, two
\* get_session calls in a row return the same session and leave the registry
\* as it was; the step of handle_message that looks its session up leaves the
\* registry and every other session unchanged.
C16_GetSessionOnlyReads ==
    /\ [](\A sid \in SessionIds :
            LET first == get_session(sessions, sid)
                second == get_session(first.registry, sid)
            IN /\ first.state = second.state
               /\ first.state = sessions[sid]
               /\ first.registry = sessions
               /\ second.registry = sessions)
    /\ [][\A c \in Conn :
            LooksUpSession(c) =>
                /\ sessions' = sessions
                /\ \A d \in Conn :
                      d # sessions[session_id[c]] => session_state'[d] = session_state[d]]_vars

C16_Witness ==
    \E c \in Conn :
        /\ pc[c] = "turn"
        /\ turn[c].state = c
        /\ get_session(sessions, session_id[c]).state = c
        /\ session_state[c].messages # <<>>
        /\ \E sid \in SessionIds : get_session(sessions, sid).state = None

IsPrefix(a, b) == Len(a) <= Len(b) /\ SubSeq(b, 1, Len(a)) = a

\* from one state to the next of a session: sequences only grow at the end,
\* counters do not go down
Grows(before, after) ==
    /\ IsPrefix(before.messages, after.messages)
    /\ IsPrefix(before.tool_outputs, after.tool_outputs)
    /\ IsPrefix(before.routing_decisions, after.routing_decisions)
    /\ before.message_count <= after.message_count
    /\ before.tool_call_count <= after.tool_call_count

\* C17: while a session id stays registered, the messages, tool outputs and
\* routing decisions of its session are only appended to and its two counters
\* never decrease, whatever the turns and the other connections do.
C17_SessionOnlyGrows ==
    [][\A s \in SessionIds :
          (sessions[s] # None /\ sessions'[s] # None) =>
              Grows(session_state[sessions[s]], session_state'[sessions'[s]])]_vars

\* C18: a turn in which a tool_call event was emitted does not reach done
\* without a second upstream request, whether the tool executions succeeded
\* or failed.
C18_ToolRoundHasSecondRequest ==
    \A c \in Conn :
        (gen[c].pc = "done" /\ ToolCallIndexes(c) # {}) => Len(gen[c].requests) = 2

CarriesToolCalls(m) == m.role = "assistant" /\ m.tool_calls # <<>>
ToolCallEvents(c) == SelectSeq(events[c], LAMBDA ev : ev.type = "tool_call")
ToolResultEvents(c) == SelectSeq(events[c], LAMBDA ev : ev.type = "tool_result")

\* C19: the history of the second request holds one assistant message that
\* carries, in order, every tool call emitted in the turn, and as many
\* tool-role messages as tool_result events were emitted, failed executions
\* included.
C19_SecondRequestHasEveryToolCall ==
    \A c \in Conn :
        Len(gen[c].requests) = 2 =>
            LET history == gen[c].requests[2].messages
                carriers == SelectSeq(history, CarriesToolCalls)
                results == SelectSeq(history, LAMBDA m : m.role = "tool")
            IN /\ Len(carriers) = 1
               /\ Len(carriers[1].tool_calls) = Len(ToolCallEvents(c))
               /\ \A i \in 1..Len(ToolCallEvents(c)) :
                     carriers[1].tool_calls[i].name = ToolCallEvents(c)[i].tool
               /\ Len(results) = Len(ToolResultEvents(c))

SecondRequestIssued(c) == pc[c] = "turn" /\ Len(gen[c].requests) = 2

\* C20: a turn makes at most two upstream requests, the second without tool
\* offers, and once the second is issued the turn emits no tool_call and no
\* tool_result event and makes no further request, whatever the second
\* stream carries.
C20_OneToolRound ==
    /\ [](\A c \in Conn :
            /\ Len(gen[c].requests) <= 2
            /\ Len(gen[c].requests) >= 1 => gen[c].requests[1].tools
            /\ Len(gen[c].requests) = 2 => ~gen[c].requests[2].tools)
    /\ [][\A c \in Conn :
            SecondRequestIssued(c) =>
                /\ gen'[c].requests = gen[c].requests
                /\ events'[c] # events[c] =>
                      /\ events'[c] = Append(events[c], Last(events'[c]))
                      /\ Last(events'[c]).type \in {"token", "done", "error"}]_vars

C20_Witness ==
    \E c \in Conn :
        /\ gen[c].pc = "done"
        /\ Len(gen[c].requests) = 2
        /\ gen[c].chunks = MaxChunks
        /\ \E i \in ToolResultIndexes(c) :
              /\ i + 2 <= Len(events[c])
              /\ events[c][i + 1].type = "token"
              /\ events[c][i + 1].content = <<"b">>

\* the places of the history of c with a given step
Steps(c, op) == {i \in 1..Len(inputs.of[c]) : inputs.of[c][i].op = op}
Least(S, otherwise) == IF S = {} THEN otherwise ELSE CHOOSE i \in S : \A j \in S : i <= j

\* the chunks the first stream of c has delivered, in order
FirstStreamGiven(c) ==
    LET stop == Least(Steps(c, "end"), Len(inputs.of[c]) + 1)
        upto == SubSeq(inputs.of[c], 1, stop - 1)
        given == SelectSeq(upto, LAMBDA x : x.op = "chunk")
    IN [i \in 1..Len(given) |-> given[i].chunk]

HasFragment(chunk) == chunk.choices /\ chunk.tool_calls # <<>>

\* the text of the chunks that came before the first chunk with a fragment
TextBeforeFragments(chunks) ==
    LET first == Least({i \in 1..Len(chunks) : HasFragment(chunks[i])}, Len(chunks) + 1)
        before == SelectSeq(SubSeq(chunks, 1, first - 1),
                            LAMBDA ch : ch.choices /\ ch.content # <<>>)
    IN [i \in 1..Len(before) |-> before[i].content]

\* the token events of the first phase: those before any tool_call event
FirstPhaseTokens(c) ==
    LET stop == Least(ToolCallIndexes(c), Len(events[c]) + 1)
        tokens == SelectSeq(SubSeq(events[c], 1, stop - 1), LAMBDA ev : ev.type = "token")
    IN [i \in 1..Len(tokens) |-> tokens[i].content]

\* C21: the tokens forwarded in the first phase are the text of the chunks
\* that came before the first chunk carrying a tool-call fragment, one token a
\* chunk in order; the text of that chunk and of every later chunk of the
\* phase is not forwarded.
C21_NoTokensOnceFragmentSeen ==
    \A c \in Conn :
        gen[c].pc \in {"stream1", "exec", "next", "req2", "stream2", "done"} =>
            FirstPhaseTokens(c) = TextBeforeFragments(FirstStreamGiven(c))

C21_Witness ==
    \E c \in Conn :
        LET chunks == FirstStreamGiven(c)
        IN /\ gen[c].pc = "stream1"
           /\ Len(chunks) = 2
           /\ ~HasFragment(chunks[1]) /\ chunks[1].content # <<>>
           /\ HasFragment(chunks[2]) /\ chunks[2].content # <<>>
           /\ Len(events[c]) = 1

\* the last step of c was an upstream failure: the exception raised
Failed(c) == inputs.of[c] # <<>> /\ Last(inputs.of[c]).op = "error"
Raised(c) == Last(inputs.of[c]).e

AnsweredWith(c, message) ==
    /\ gen[c].pc = "error"
    /\ events[c] # <<>>
    /\ Last(events[c]) = ErrorEventOf(message)

\* C22: an upstream failure with status 401 is answered with the error event
\* that carries the invalid-API-key message, not the quota message.
C22_AuthenticationHasItsMessage ==
    \A c \in Conn :
        (Failed(c) /\ Raised(c).cls = "APIStatusError"
           /\ Raised(c).status_code = StatusUnauthorized) =>
            /\ AnsweredWith(c, "invalid_api_key")
            /\ ~AnsweredWith(c, "quota_exceeded")

\* C23: an upstream timeout is answered with the timeout message and an
\* upstream connection failure with the connection message, neither with the
\* message of the handler for API errors.
C23_TimeoutAndConnectionHaveTheirMessages ==
    \A c \in Conn :
        /\ (Failed(c) /\ Raised(c).cls = "APITimeoutError") => AnsweredWith(c, "timeout")
        /\ (Failed(c) /\ Raised(c).cls = "APIConnectionError") =>
               AnsweredWith(c, "connection")

\* C24: a run of the summarizer never raises to its caller, sends at most one
\* upstream request and calls update_session_summary at most once, whatever
\* fails on the way.
C24_SummarizerFailsQuietlyOnce ==
    \A k \in 1..Len(summary_tasks) :
        /\ ~summary_tasks[k].raised
        /\ summary_tasks[k].requests <= 1
        /\ summary_tasks[k].updates <= 1
        /\ summary_tasks[k].updates <= summary_tasks[k].requests

\* a run that sent its request and finished without the update (the timestamp
\* failed), and nothing was stored
C24_Witness ==
    \E k \in 1..Len(summary_tasks) :
        /\ summary_tasks[k].pc = "finished"
        /\ summary_tasks[k].requests = 1
        /\ summary_tasks[k].updates = 0
        /\ db_summaries[summary_tasks[k].session_id] = <<>>

RECURSIVE TokenText(_)
TokenText(evs) ==
    IF evs = <<>> THEN <<>>
    ELSE (IF Head(evs).type = "token" THEN Head(evs).content ELSE <<>>)
         \o TokenText(Tail(evs))

ReceivesDone(c) ==
    /\ Len(events'[c]) = Len(events[c]) + 1
    /\ Last(events'[c]).type = "done"

\* C25: the step in which the driver receives done appends one assistant
\* message holding the tokens of the turn, in order and from both phases, when
\* that text is not empty, and leaves the messages as they are when it is
\* empty; it sends the done frame to an open transport in both cases.
C25_DoneAppendsAccumulatedText ==
    [][\A c \in Conn :
          ReceivesDone(c) =>
              LET o == turn[c].state
                  text == TokenText(events[c])
                  before == session_state[o].messages
              IN /\ session_state'[o].messages =
                        IF text # <<>> THEN Append(before, Message("assistant", text))
                        ELSE before
                 /\ ws_open[turn[c].websocket] =>
                        frames'[c] = Append(frames[c], [ws |-> turn[c].websocket,
                                                        frame |-> FrameOf(DoneEvent)])]_vars

\* a turn finished with done whose assistant message holds tokens of both
\* phases, and a turn finished with done that forwarded no token
C25_Witness ==
    \E c \in Conn :
        /\ turn[c].outcome = "done" /\ pc[c] = "receive"
        /\ gen[c].pc = "done"
        /\ Len(gen[c].requests) = 2
        /\ \E i, j \in 1..Len(events[c]) :
              /\ i < j
              /\ events[c][i].type = "token" /\ events[c][j].type = "token"
              /\ \E k \in 1..Len(events[c]) : i < k /\ k < j /\ events[c][k].type = "tool_result"
        /\ Last(session_state[turn[c].state].messages) =
               Message("assistant", TokenText(events[c]))

C25_WitnessEmpty ==
    \E c \in Conn :
        /\ turn[c].outcome = "done" /\ pc[c] = "receive"
        /\ TokenText(events[c]) = <<>>
        /\ Last(session_state[turn[c].state].messages).role = "user"
        /\ Last(frames[c]).frame = FrameOf(DoneEvent)

\* the rows written to the log since the turn of c logged its user message
TurnLog(c) ==
    LET rows == db_events[session_id[c]]
    IN SubSeq(rows, turn[c].log_mark + 1, Len(rows))

\* C26: with sends and log calls succeeding, every event the orchestrator
\* emitted in the turn (token, tool_call, tool_result, done, error) has one
\* frame and one row of the log.
C26_EveryEventFramedAndLogged ==
    \A c \in Conn :
        (pc[c] \in {"turn", "receive"} /\ turn[c].outcome \in {"running", "done", "error"}) =>
            /\ Len(frames[c]) = Len(events[c])
            /\ \A i \in 1..Len(events[c]) : frames[c][i].frame = FrameOf(events[c][i])
            /\ Len(TurnLog(c)) = Len(events[c])

\* the step is one of connection a
Acts(a) ==
    <<pc[a], gen[a], turn[a], events[a], frames[a], turns[a], ws_open[a], session_id[a]>>' #
    <<pc[a], gen[a], turn[a], events[a], frames[a], turns[a], ws_open[a], session_id[a]>>

\* the step leaves everything of connection b and of its session as it was
Untouched(b) ==
    /\ session_state'[b] = session_state[b]
    /\ <<pc[b], gen[b], turn[b], events[b], frames[b], turns[b]>>' =
       <<pc[b], gen[b], turn[b], events[b], frames[b], turns[b]>>
    /\ session_id[b] # None =>
          /\ sessions'[session_id[b]] = sessions[session_id[b]]
          /\ active_connections'[session_id[b]] = active_connections[session_id[b]]
          /\ db_events'[session_id[b]] = db_events[session_id[b]]

\* C27: with distinct session ids, a connect, a step of a turn or a
\* disconnect of one connection leaves the registry entry, the session
\* (messages, tool outputs, routing decisions, counters), the turn and the
\* log of every other connection unchanged, and the frames of a connection's
\* turns go to its own transport only.
C27_DistinctSessionsIndependent ==
    [][(DistinctIds /\ DistinctIds') =>
           \A a \in Conn :
               Acts(a) =>
                   /\ \A b \in Conn \ {a} : Untouched(b)
                   /\ \A i \in 1..Len(frames'[a]) : frames'[a][i].ws = a]_vars

\* both connections in a turn at once, on different sessions, each with an
\* event forwarded
C27_Witness ==
    /\ DistinctIds
    /\ \A c \in Conn :
          /\ session_id[c] # None
          /\ turns[c] = 1
          /\ events[c] # <<>>
          /\ frames[c] # <<>>
    /\ \E c \in Conn : pc[c] = "closed" /\ sessions[session_id[c]] = None

\* the last step of c took an inbound frame that started a turn
TookFrame(c) ==
    /\ inputs.of[c] # <<>>
    /\ Last(inputs.of[c]).op = "frame"
    /\ Last(inputs.of[c]).frame.kind # "value"

\* the body the turn of c was started with: the user message added to the
\* session, which is also the row logged and the last message of the request
BodyTaken(c, body) ==
    /\ Last(session_state[c].messages) = Message("user", body)
    /\ Last(db_events[session_id[c]]) = UserEntry(body)
    /\ Last(gen[c].full_messages).content = body

\* C28: the message body of an inbound frame is the value of its message
\* field when the frame is a JSON object with that field, the raw text of the
\* frame when the frame is not JSON, and the raw text as well when the frame
\* is a JSON object without a message field.
C28_BodyOfFrame ==
    \A c \in Conn :
        TookFrame(c) =>
            LET f == Last(inputs.of[c]).frame
            IN /\ (f.kind = "object" /\ f.has_message) => BodyTaken(c, f.message)
               /\ f.kind = "text" => BodyTaken(c, f.text)
               /\ (f.kind = "object" /\ ~f.has_message) => BodyTaken(c, f.text)

\* a turn started from a JSON object whose message field differs from the
\* text of the frame
C28_Witness ==
    \E c \in Conn :
        /\ TookFrame(c)
        /\ Last(inputs.of[c]).frame.kind = "object"
        /\ Last(inputs.of[c]).frame.has_message
        /\ Last(inputs.of[c]).frame.message # Last(inputs.of[c]).frame.text
        /\ BodyTaken(c, Last(inputs.of[c]).frame.message)

Rendered == {"user_message", "tool_call", "tool_result"}
IsRendered(row) == row.event_type \in Rendered
LabelOf(row) ==
    IF row.event_type = "user_message" THEN "User"
    ELSE IF row.event_type = "tool_call" THEN "Tool Call" ELSE "Tool Result"

Built(k) == summary_tasks[k].pc \in {"request", "finished"} /\ summary_tasks[k].seen # <<>>

\* C29: the transcript of the summarizer has one labeled line for each
\* user_message, tool_call and tool_result row of the list it loaded, in the
\* order of the list, and no line for an ai_token or system_event row.
C29_TranscriptLines ==
    \A k \in 1..Len(summary_tasks) :
        Built(k) =>
            LET rows == SelectSeq(summary_tasks[k].seen, IsRendered)
                text == summary_tasks[k].conversation_text
            IN /\ Len(text) = Len(rows)
               /\ \A i \in 1..Len(rows) :
                     /\ text[i].label = LabelOf(rows[i])
                     /\ text[i].content = rows[i].content
                     /\ text[i].tool = rows[i].tool
                     /\ text[i].arguments = rows[i].arguments
                     /\ text[i].result = rows[i].result
               /\ \A i \in 1..Len(text) : text[i].label \in {"User", "Tool Call", "Tool Result"}

\* a transcript built from a list that holds rows of all five types
C29_Witness ==
    \E k \in 1..Len(summary_tasks) :
        /\ Built(k)
        /\ \A ty \in Rendered \cup {"ai_token", "system_event"} :
              \E i \in 1..Len(summary_tasks[k].seen) : summary_tasks[k].seen[i].event_type = ty
        /\ Len(summary_tasks[k].conversation_text) = 3

\* the sessions equal to state in messages, message_count and tool_call_count
\* that record other routing decisions and tool outputs
SameTranscript(state) ==
    { [state EXCEPT !.routing_decisions = rd, !.tool_outputs = outs] :
        rd \in {<<>>, state.routing_decisions,
                 state.routing_decisions \o state.routing_decisions},
        outs \in {<<>>, state.tool_outputs, state.tool_outputs \o state.tool_outputs} }

TurnStarts(c) == pc[c] = "receive" /\ pc'[c] = "turn"

\* C30: the step that classifies a session leaves every field of it as the
\* driver set it (the user message added before, the decision appended
\* after), and every session with the same messages, message_count and
\* tool_call_count gets the same decision, whatever routing decisions and
\* tool outputs it records.
C30_ClassifierStateless ==
    [][\A c \in Conn :
          TurnStarts(c) =>
              LET o == turn'[c].state
                  after == session_state'[o]
                  decision == Last(after.routing_decisions)
                  given == add_message(session_state[o],
                                       Message("user", Last(after.messages).content))
              IN /\ after = [given EXCEPT !.routing_decisions = Append(@, decision)]
                 /\ \A other \in SameTranscript(given) :
                       analyze_conversation_context(other) = decision]_vars

\* a session classified with tool outputs and earlier decisions on record,
\* whose decision differs from an earlier one
C30_Witness ==
    \E c \in Conn :
        /\ pc[c] = "turn"
        /\ session_state[c].tool_outputs # <<>>
        /\ Len(session_state[c].routing_decisions) >= 2
        /\ Last(session_state[c].routing_decisions).strategy = ANALYTICAL
        /\ session_state[c].routing_decisions[1].strategy # ANALYTICAL

\* C31: under every interleaving, two connections on one session id
\* included, a connection being served has its session id in the registry
\* and in the connection table under its own transport, no frame it sent was
\* returned from without a frame, and the frames of its turn go to its own
\* transport.
C31_ServedConnectionIsRegistered ==
    \A c \in Conn :
        Serving(c) =>
            /\ sessions[session_id[c]] # None
            /\ active_connections[session_id[c]] = c
            /\ turn[c].outcome # "returned"
            /\ \A i \in 1..Len(frames[c]) : frames[c][i].ws = c

TerminalFrames(c) == {i \in 1..Len(frames[c]) : frames[c][i].frame.type \in {"done", "error"}}

\* the turn of c was started by handle_message and every send of it succeeded
TurnEnded(c) ==
    pc[c] = "receive" /\ turn[c].outcome \in {"done", "error", "driver_error"}

\* C32: a turn that handle_message started and whose sends succeed has no
\* terminal frame while it runs and, once it has ended, exactly one, which is
\* its last frame: done after the orchestrator's done, the orchestrator's
\* error after its error, the driver's error after an exception in the
\* driver's loop.
C32_OneTerminalFrame ==
    \A c \in Conn :
        /\ (pc[c] = "turn" /\ turn[c].outcome = "running") => TerminalFrames(c) = {}
        /\ TurnEnded(c) =>
              /\ frames[c] # <<>>
              /\ TerminalFrames(c) = {Len(frames[c])}
              /\ turn[c].outcome = "done" => Last(frames[c]).frame = FrameOf(DoneEvent)
              /\ turn[c].outcome = "error" =>
                    Last(frames[c]).frame = FrameOf(Last(events[c]))
              /\ turn[c].outcome = "driver_error" =>
                    Last(frames[c]).frame = DriverErrorFrame

\* a turn ended by an exception in the driver's loop after frames had gone out
C32_Witness ==
    \E c \in Conn :
        /\ TurnEnded(c)
        /\ turn[c].outcome = "driver_error"
        /\ Len(frames[c]) >= 3
        /\ \E i \in 1..Len(frames[c]) : frames[c][i].frame.type = "tool_result"

\* the first request of the turn of c: the history sent upstream
HistorySent(c) == gen[c].requests[1].messages

\* the turn of c follows a turn that ended in the orchestrator's error
FollowsErrorTurn(c) ==
    pc[c] = "turn" /\ turn[c].prev = "error" /\ gen[c].requests # <<>>

\* C33: the step in which a turn ends in error appends no message to the
\* session, whose last message is then the user message of that turn; the
\* history sent upstream on the next turn ends with two user messages and
\* is the messages of the session, which hold nothing of the failed turn but
\* its user message.
C33_ErrorTurnLeavesNoAssistantMessage ==
    /\ [][\A c \in Conn :
            YieldsError(c) =>
                /\ session_state'[turn[c].state].messages =
                      session_state[turn[c].state].messages
                /\ Last(session_state'[turn[c].state].messages).role = "user"]_vars
    /\ [](\A c \in Conn :
            FollowsErrorTurn(c) =>
                LET sent == HistorySent(c)
                    n == Len(sent)
                IN /\ n >= 3
                   /\ sent[n].role = "user" /\ sent[n - 1].role = "user"
                   /\ SubSeq(sent, 2, n) =
                         [i \in 1..Len(session_state[turn[c].state].messages) |->
                             ToDict(session_state[turn[c].state].messages[i])])

\* a turn after a turn that had forwarded a token and ended in error: the
\* token is in the log, the session holds the two user messages only
C33_Witness ==
    \E c \in Conn :
        /\ FollowsErrorTurn(c)
        /\ \E i \in 1..turn[c].log_mark :
              db_events[session_id[c]][i].event_type = "ai_token"
        /\ Len(HistorySent(c)) = 3
        /\ Len(session_state[c].messages) = 2

\* the message of a request is a plain one: no tool calls, no tool_call_id
IsPlain(msg) == msg.tool_calls = <<>> /\ msg.tool_call_id = ""

\* C34: every message of a session has role user or assistant; the
\* assistant message with tool calls and the tool-role messages of a tool
\* round are in the working history of that turn only, and the history a
\* turn starts with holds the system prompt and plain user and assistant
\* messages.
C34_SessionHoldsUserAndAssistantOnly ==
    \A c \in Conn :
        /\ \A i \in 1..Len(session_state[c].messages) :
              session_state[c].messages[i].role \in {"user", "assistant"}
        /\ gen[c].requests # <<>> =>
              LET sent == HistorySent(c)
              IN /\ sent[1].role = "system"
                 /\ \A i \in 2..Len(sent) :
                       sent[i].role \in {"user", "assistant"} /\ IsPlain(sent[i])
                 /\ (pc[c] = "turn" /\ turn[c].outcome = "running") =>
                       Len(sent) = 1 + Len(session_state[turn[c].state].messages)

\* the second request of a turn that follows a turn with a tool round: its
\* working history holds tool messages, the session and the history the
\* turn started with do not
C34_Witness ==
    \E c \in Conn :
        /\ turns[c] = 2
        /\ Len(gen[c].requests) = 2
        /\ \E i \in 1..Len(gen[c].full_messages) : gen[c].full_messages[i].role = "tool"
        /\ \E i \in 1..Len(gen[c].full_messages) : ~IsPlain(gen[c].full_messages[i])
        /\ session_state[c].tool_call_count >= 2
        /\ Len(HistorySent(c)) = 4

\* the tool_result rows the driver logged for session sid: with persistence
\* working, one for every tool_result event it processed
ToolResultsProcessed(sid) ==
    Cardinality({i \in 1..Len(db_events[sid]) : db_events[sid][i].event_type = "tool_result"})

Registered(c) == session_id[c] # None /\ sessions[session_id[c]] = c

\* C35: in every state of a session tool_call_count is the length of
\* tool_outputs and the number of tool_result events the driver processed
\* for it, results with an error payload included; a decision taken with
\* more than two tool calls on the count is TOOL_HEAVY.
C35_ToolCountCountsEveryResult ==
    \A c \in Conn :
        /\ session_state[c].tool_call_count = Len(session_state[c].tool_outputs)
        /\ Registered(c) =>
              session_state[c].tool_call_count = ToolResultsProcessed(session_id[c])
        /\ \A i \in 1..Len(session_state[c].routing_decisions) :
              session_state[c].routing_decisions[i].tool_call_count > ToolThreshold =>
                  session_state[c].routing_decisions[i].strategy = TOOL_HEAVY

\* a turn routed TOOL_HEAVY after three tool calls that all failed
C35_Witness ==
    \E c \in Conn :
        /\ pc[c] = "turn" /\ turns[c] = 2
        /\ Len(session_state[c].tool_outputs) = 3
        /\ \A i \in 1..3 : session_state[c].tool_outputs[i].result.error # ""
        /\ Last(session_state[c].routing_decisions).strategy = TOOL_HEAVY
        /\ session_state[c].routing_decisions[1].strategy # TOOL_HEAVY

Holds(rows, entry) == \E i \in 1..Len(rows) : rows[i] = entry

\* C36: with persistence working, when the summarizer of a session is
\* scheduled the session is out of the registry and "Session ended" is in
\* the log after "Session started"; the summarizer loads both rows and sends
\* its request, for a session without a user turn too.
C36_SummarizerSeesStartAndEnd ==
    \A k \in 1..Len(summary_tasks) :
        LET t == summary_tasks[k]
            log == db_events[t.session_id]
        IN /\ sessions[t.session_id] = None
           /\ Len(log) >= 2
           /\ log[1] = SystemEntry("Session started")
           /\ Last(log) = SystemEntry("Session ended")
           /\ t.pc # "scheduled" =>
                 /\ t.seen = log
                 /\ Holds(t.seen, SystemEntry("Session started"))
                 /\ Holds(t.seen, SystemEntry("Session ended"))
                 /\ t.requests = 1

\* the summarizer of a session without a user turn has sent its request
C36_Witness ==
    \E k \in 1..Len(summary_tasks) :
        /\ summary_tasks[k].pc = "request"
        /\ summary_tasks[k].requests = 1
        /\ Len(summary_tasks[k].seen) = 2
        /\ \A c \in Conn : turns[c] = 0

\* a run of the summarizer that loaded events and got through its timestamps
Completed(k) ==
    /\ summary_tasks[k].pc = "finished"
    /\ summary_tasks[k].seen # <<>>
    /\ summary_tasks[k].caught = ""

\* C37 as stated: a persisted summary exists for every run that loaded at
\* least one event and whose timestamps parse.
C37_SummaryPersistedForEveryRun ==
    \A k \in 1..Len(summary_tasks) :
        Completed(k) => db_summaries[summary_tasks[k].session_id] # <<>>

\* C37 amended: a run that loaded events and whose timestamps parse calls
\* update_session_summary once with the text it got, the failure notice when
\* the upstream request failed; the summary is persisted exactly when that
\* call succeeds on an existing row of the session.
C37_FailureNoticeIsSubmitted ==
    \A k \in 1..Len(summary_tasks) :
        Completed(k) =>
            LET t == summary_tasks[k]
            IN /\ t.requests = 1 /\ t.updates = 1
               /\ t.summary \in {SummaryText, SummaryEmpty, SummaryFailed}
               /\ t.stored \in {"true", "false"}
               /\ t.stored = "true" =>
                     /\ t.session_id \in db_sessions
                     /\ db_summaries[t.session_id] = <<t.summary>>
               /\ t.stored = "false" => db_summaries[t.session_id] = <<>>

\* a run whose upstream request failed and whose failure notice is persisted
C37_Witness ==
    \E k \in 1..Len(summary_tasks) :
        /\ Completed(k)
        /\ summary_tasks[k].summary = SummaryFailed
        /\ summary_tasks[k].stored = "true"
        /\ db_summaries[summary_tasks[k].session_id] = <<SummaryFailed>>

TasksFor(sid) == {k \in 1..Len(summary_tasks) : summary_tasks[k].session_id = sid}
ClosedOn(sid) == {c \in Conn : pc[c] = "closed" /\ session_id[c] = sid}

\* the receive loop of c ends in this step
LoopEnds(c) == Serving(c) /\ ~Serving(c)'

\* C38: the step that ends the receive loop of a connection runs the
\* disconnect handler, which schedules one summarizer task for the
\* connection's session id, and no other step schedules one; a session id
\* has as many tasks as connections that used it and have ended.
C38_OneSummarizerPerConnection ==
    /\ [][\A c \in Conn :
            LoopEnds(c) =>
                /\ pc'[c] = "closed"
                /\ summary_tasks' = Append(summary_tasks, Task(session_id[c]))]_vars
    /\ [][(\A c \in Conn : ~LoopEnds(c)) => summary_tasks' = summary_tasks]_vars
    /\ [](\A sid \in SessionIds :
              Cardinality(TasksFor(sid)) = Cardinality(ClosedOn(sid)))

\* two connections that used one session id have ended: two tasks for it
C38_Witness ==
    /\ \A c \in Conn : pc[c] = "closed" /\ session_id[c] = "s1"
    /\ Cardinality(TasksFor("s1")) = 2

\* the rationale the claim gives: one entry for each rule that fired, in the
\* order of the rules
ClaimedReasoning(state) ==
    (IF state.message_count > 10 THEN <<"deep">> ELSE <<>>)
    \o (IF UserMessages(state) # {} /\ MentionsKeyword(LatestUserText(state))
        THEN <<"analytical">> ELSE <<>>)
    \o (IF state.tool_call_count > 2 THEN <<"tools">> ELSE <<>>)

\* C39: the verbosity of a decision is detailed exactly when its strategy is
\* ANALYTICAL, balanced exactly when it is SUMMARIZATION_AWARE and concise
\* otherwise, so concise when the tool rule overrode another; its rationale
\* has one entry for each rule that fired, in rule order, overridden rules
\* included.
C39_VerbosityFollowsFinalStrategy ==
    \A c \in Conn :
        pc[c] = "turn" =>
            LET state == session_state[turn[c].state]
                d == Last(state.routing_decisions)
            IN /\ (d.verbosity = "detailed") = (d.strategy = ANALYTICAL)
               /\ (d.verbosity = "balanced") = (d.strategy = SUMMARIZATION_AWARE)
               /\ (d.verbosity = "concise") = (d.strategy \in {FAST_CONCISE, TOOL_HEAVY})
               /\ state.tool_call_count > 2 => d.verbosity = "concise"
               /\ d.reasoning = ClaimedReasoning(state)

\* a decision in which all three rules fired and the tool rule overrode the
\* other two
C39_Witness ==
    \E c \in Conn :
        /\ pc[c] = "turn"
        /\ Last(session_state[c].routing_decisions).reasoning = <<"deep", "analytical", "tools">>
        /\ Last(session_state[c].routing_decisions).strategy = TOOL_HEAVY
        /\ Last(session_state[c].routing_decisions).verbosity = "concise"

\* an accumulated tool call with its slot filled and a name
Complete(slot) == slot.present /\ slot.name # ""

\* the tool round of the turn of c has run to its end
RoundOver(c) ==
    /\ gen[c].tool_calls # <<>> /\ gen[c].finish_reason = "tool_calls"
    /\ gen[c].pc \in {"req2", "stream2", "done"}

\* C40: the tool round emits a tool_call and a tool_result event for the
\* accumulated calls that have a slot and a name, in order, and none for the
\* others; a call whose arguments are not valid JSON has a tool_call event
\* with empty arguments; when every result of the round carries an error the
\* turn ends with done after its one upstream request.
C40_IncompleteCallsAreSkipped ==
    \A c \in Conn :
        RoundOver(c) =>
            LET calls == SelectSeq(gen[c].tool_calls, Complete)
                asked == ToolCallEvents(c)
                answered == ToolResultEvents(c)
            IN /\ Len(asked) = Len(calls) /\ Len(answered) = Len(calls)
               /\ \A i \in 1..Len(calls) :
                     /\ asked[i].tool = calls[i].name
                     /\ answered[i].tool = calls[i].name
                     /\ ~JsonLoads(calls[i].arguments).ok => asked[i].arguments = NoArguments
               /\ \A i \in 1..Len(events[c]) :
                     events[c][i].type = "tool_call" =>
                         i < Len(events[c]) /\ events[c][i + 1].type = "tool_result"
               /\ (\A i \in 1..Len(answered) : answered[i].result.error # "") =>
                     /\ gen[c].pc = "done"
                     /\ Len(gen[c].requests) = 1
                     /\ Last(events[c]).type = "done"

\* a round over a call with a name whose arguments are not JSON and an entry
\* without a name: one tool_call with empty arguments, its failed result,
\* then done after the one request
C40_Witness ==
    \E c \in Conn :
        /\ RoundOver(c)
        /\ \E i \in 1..Len(gen[c].tool_calls) :
              gen[c].tool_calls[i].present /\ gen[c].tool_calls[i].name = ""
        /\ \E i \in 1..Len(gen[c].tool_calls) :
              Complete(gen[c].tool_calls[i]) /\ ~JsonLoads(gen[c].tool_calls[i].arguments).ok
        /\ Len(ToolCallEvents(c)) = 1
        /\ gen[c].pc = "done" /\ Len(gen[c].requests) = 1

\* a round over a list whose first slot was never filled
C40_WitnessMissingSlot ==
    \E c \in Conn :
        /\ RoundOver(c)
        /\ ~gen[c].tool_calls[1].present
        /\ Len(ToolCallEvents(c)) = 1
        /\ gen[c].pc = "done"

====
